---- MODULE Spec2Model ----
(***************************************************************************)
(* Model of the sparql-ts read pipeline.                                   *)
(*                                                                         *)
(*   Spec        one request through createSparqlServer(...).handle        *)
(*               (src/unnamed/part_001)                                    *)
(*   SpecShaper  one call of shapeAndMapAll                                *)
(*               (packages/sparql-ts-shaper/src/shaper.ts)                 *)
(*   SpecExec    the engine adapter: the availability check and the        *)
(*               execQuery calls of one process (src/unnamed/part_009)     *)
(*                                                                         *)
(* Callbacks supplied by the host (authorizeOperation, authorizeRow, the   *)
(* operation's build function, buildQuads, mapToObject), the shape         *)
(* validator and the execution backend are external: each call either      *)
(* returns or throws, chosen nondeterministically from small sets.         *)
(* The injected logger is a sink of type (e) => void and returns.  The     *)
(* Response constructor behaves as the Fetch Standard defines it: it       *)
(* throws RangeError for a status outside 200..599 and TypeError for a     *)
(* body with a null-body status.                                           *)
(***************************************************************************)
EXTENDS Integers, Sequences, FiniteSets, TLC

\* ------------------------------------------------------------------ bounds
\* Largest number of rows the backend's row sequence yields in one request.
MaxRows == 3

\* Largest number of execQuery calls made in one process.
MaxCalls == 2

\* Largest number of rows a caller pulls from one row sequence returned by
\* execQuery.
MaxYield == 2

\* calls made on one SparqlBuilder
MaxOps == 4

\* levels of nesting in the pattern lists handed to the AST analyser
MaxDepth == 2

\* identifiers in the usedIris handed to the operation policy
MaxIris == 2

\* quads of the row handed to the row policy
MaxQuads == 2

\* ------------------------------------------------------- thrown JS values
\* The `status` property of a thrown value, as `typeof e?.status` sees it.
NoStatus == [t |-> "undefined", n |-> 0]
NumStatus(n) == [t |-> "number", n |-> n]
StrStatus(n) == [t |-> "string", n |-> n]

\* A thrown value: its class (Error, ZodError, or a thrown primitive number),
\* its status property, its message, and for a primitive its numeric value.
Thrown(cls, st, msg, num) == [cls |-> cls, status |-> st, message |-> msg, num |-> num]
Err(st, msg) == Thrown("Error", st, msg, 0)
Zod(st, msg) == Thrown("ZodError", st, msg, 0)
Prim(num) == Thrown("Number", NoStatus, "", num)

NoError == Thrown("none", NoStatus, "", 0)

\* Values a host hook (authorizeOperation, the build function) may throw.
HookErrors ==
  { Err(NoStatus, "deny"),
    Err(NumStatus(403), "forbidden"),
    Err(NumStatus(418), "teapot"),
    Err(NumStatus(99), "bad hint"),
    Err(StrStatus(403), "string hint"),
    Zod(NoStatus, "hook schema"),
    Zod(NumStatus(403), "hook schema 403"),
    Prim(123) }

\* Values a per-row callback (buildQuads, authorizeRow, mapToObject) may throw.
RowErrors == { Err(NumStatus(403), "deny row") }

\* Failure of the shape validator for one row.
ValidationFailed == Err(NoStatus, "Validation failed")

\* shaper.ts:111 / shaper.ts:61
MissingFocusNode == Err(NoStatus, "focusNodeVar 'id' not found in binding row")

\* shaper.ts:100
OutputSpecMissingOne ==
  Err(NoStatus, "OutputSpec must be set on SparqlBuilder before calling shapeAndMapOne")

\* part_001:69
OutputSpecMissingServe ==
  Err(NoStatus, "OutputSpec must be set on SparqlBuilder to serve typed endpoint")

\* part_009:276
QueryExecutionFailed == Err(NoStatus, "SPARQL query execution failed: backend")

\* A failure raised by the backend while the row sequence is being consumed.
StreamFailed == Err(NoStatus, "stream broke")

\* What a backend may raise while its stream is consumed: an Error, an Error
\* that carries a numeric status, one whose status is no HTTP status.
StreamErrors ==
  { StreamFailed,
    Err(NumStatus(503), "upstream unavailable"),
    Err(NumStatus(99), "stream bad hint") }

\* request.json() on a body that is not JSON
JsonSyntaxError == Err(NoStatus, "Unexpected token")

\* def.params.parse on a value that is not a QueryDef
ParamsTypeError == Err(NoStatus, "Cannot read properties of undefined (reading 'parse')")

\* `new Response(body, {status})` with a status outside 200..599
ResponseRangeError == Err(NoStatus, "init[status] must be in the range of 200 to 599, inclusive.")

\* ------------------------------------------------------------ string form
Digit(d) == CASE d = 0 -> "0" [] d = 1 -> "1" [] d = 2 -> "2" [] d = 3 -> "3"
              [] d = 4 -> "4" [] d = 5 -> "5" [] d = 6 -> "6" [] d = 7 -> "7"
              [] d = 8 -> "8" [] OTHER -> "9"

RECURSIVE NatToString(_)
NatToString(n) == IF n < 10 THEN Digit(n) ELSE NatToString(n \div 10) \o Digit(n % 10)

\* String(e) for a thrown value that is not an Error instance
StringOf(e) == NatToString(e.num)

\* ------------------------------------------------------------- the request
Methods == {"GET", "POST"}

\* The `operation` field of the posted JSON object.
OpAbsent == [t |-> "undefined", s |-> ""]
OpNumber == [t |-> "number", s |-> ""]
OpString(s) == [t |-> "string", s |-> s]

\* Operation names a client may send: two registered names, an unregistered
\* one, the empty string, and a name every plain object inherits.
OpNames == {"op", "opReq", "unknown", "", "constructor"}

OpFields == {OpAbsent, OpNumber} \cup {OpString(s) : s \in OpNames}

\* The `params` field: absent, or one of three objects.
ParamFields == {"undefined", "empty", "good", "bad"}

\* What request.json() finds: text that is not JSON, a JSON value that is not
\* an object, or an object with the two fields above.
Body(kind, opf, pf) == [kind |-> kind, operation |-> opf, params |-> pf]
Bodies ==
  {Body("notjson", OpAbsent, "undefined"), Body("array", OpAbsent, "undefined")}
    \cup {Body("object", o, p) : o \in OpFields, p \in ParamFields}

\* Variant: `operation` declared optional.
RequestEnvelopeAccepts_OperationOptional(b) ==
  /\ b.kind = "object"
  /\ \/ b.operation.t = "undefined"
     \/ b.operation.t = "string" /\ Len(b.operation.s) >= 1

\* Variant: `operation` declared z.string() without min(1).
RequestEnvelopeAccepts_NoMin(b) ==
  /\ b.kind = "object"
  /\ b.operation.t = "string"

\* types.ts:35-38  RequestEnvelope = z.object({operation: z.string().min(1),
\*                                             params: z.unknown().optional()})
RequestEnvelopeAccepts(b) ==
  /\ b.kind = "object"
  /\ b.operation.t = "string"
  /\ Len(b.operation.s) >= 1

\* ------------------------------------------------------------ the registry
\* The registry passed to createSparqlServer: a plain object with two
\* operations.  "op" accepts {} and the good params, "opReq" only the good.
RegistryKeys == {"op", "opReq"}

ParamsSchemaAccepts(name, p) ==
  IF name = "op" THEN p \in {"empty", "good"} ELSE p = "good"

\* Property names every plain object inherits from Object.prototype.
InheritedKeys == {"constructor"}

\* registry[env.operation]
RegistryLookup(name) ==
  IF name \in RegistryKeys THEN "def"
  ELSE IF name \in InheritedKeys THEN "inherited"
  ELSE "undefined"

\* Variant: absent params are handed to the schema as they are.
ParamsOrDefault_NoDefault(p) == p

\* env.params ?? {}
ParamsOrDefault(p) == IF p = "undefined" THEN "empty" ELSE p

\* ------------------------------------------------------------- responses
NoResponse == [status |-> 0, kind |-> "none", name |-> "", message |-> "",
               operation |-> "", data |-> <<>>]

SuccessResponse(o, data) ==
  [status |-> 200, kind |-> "success", name |-> "", message |-> "",
   operation |-> o, data |-> data]

ErrorResponse(status, name, message, o) ==
  [status |-> status, kind |-> "error", name |-> name, message |-> message,
   operation |-> o, data |-> <<>>]

\* The Response constructor accepts a status in 200..599 that allows a body.
ResponseStatusOk(status) ==
  /\ status >= 200
  /\ status <= 599
  /\ status \notin {204, 205, 304}

\* part_001:101-106  what the catch block derives from the caught value
IsZodError(e) == e.cls = "ZodError"
IsErrorInstance(e) == e.cls \in {"Error", "ZodError"}

Hinted(e) == e.status.t = "number"

\* Variant: `hinted ?? (zod ? 400 : 500)`, the hint taking precedence.
ErrorStatus_HintFirst(e) ==
  IF Hinted(e) THEN e.status.n ELSE IF IsZodError(e) THEN 400 ELSE 500

\* Variant: schema errors answered with 422.
ErrorStatus_Zod422(e) == IF IsZodError(e) THEN 422 ELSE IF Hinted(e) THEN e.status.n ELSE 500

ErrorStatus(e) == IF IsZodError(e) THEN 400 ELSE IF Hinted(e) THEN e.status.n ELSE 500

ErrorName(e) == IF IsZodError(e) THEN "ValidationError" ELSE "ServerError"

\* Variant: the message is always read from the thrown value's message property.
ErrorMessage_AlwaysMessage(e) == e.message

ErrorMessage(e) == IF IsErrorInstance(e) THEN e.message ELSE StringOf(e)

\* ------------------------------------------------------------------- rows
\* A binding row: its arrival number and whether it binds the focus-node
\* variable.
Row(i, focus) == [id |-> i, focus |-> focus]
NoRow == Row(0, FALSE)

\* mapToObject(row): the DTO of a row, which satisfies the operation's
\* result schema or does not.
Dto(r, typed) == [id |-> r.id, typed |-> typed]

\* How a call ends: it returns a DTO or throws, and which step ended it.
Return(v) == [kind |-> "return", step |-> "mapToObject", dto |-> v, err |-> NoError]
Throw(step, e) == [kind |-> "throw", step |-> step, dto |-> Dto(NoRow, FALSE), err |-> e]

\* shaper.ts:105-118 (and 56-68)  build quads, resolve the focus node,
\* validate, map: every way the four steps can end for one row, given what
\* the callbacks and the validator may throw
RowSteps(r, callbackErrors, validatorErrors) ==
  {Throw("buildQuads", e) : e \in callbackErrors}
    \cup (IF ~r.focus THEN {Throw("focusNode", MissingFocusNode)}
          ELSE {Throw("validate", e) : e \in validatorErrors}
                 \cup {Throw("mapToObject", e) : e \in callbackErrors}
                 \cup {Return(Dto(r, typed)) : typed \in BOOLEAN})

\* Variant: shapeAndMapOne does not look for the OutputSpec first.
ShapeAndMapOne_NoSpecCheck(hasSpec, r) == RowSteps(r, RowErrors, {ValidationFailed})

\* shaper.ts:94-119  every way shapeAndMapOne(builder, row) can end
ShapeAndMapOne(hasSpec, r) ==
  IF ~hasSpec THEN {Throw("getOutputSpec", OutputSpecMissingOne)}
  ELSE RowSteps(r, RowErrors, {ValidationFailed})

\* part_001:92-93  def.resultItem.array().parse(results)
ResultSchemaAccepts(dtos) == \A i \in 1..Len(dtos) : dtos[i].typed

\* ------------------------------------------------------------ the builder
\* An RDF/JS term handed to the builder.  `datatype` is the datatype IRI of a
\* literal, "" when the term has none.
Term(termType, value, language, datatype) ==
  [termType |-> termType, value |-> value, language |-> language, datatype |-> datatype]

Triple(s, p, o) == [subject |-> s, predicate |-> p, object |-> o]

\* What a caller may pass to the builder's methods: triples (identifiers and a
\* variable, a blank node and a typed literal, a term of a kind the
\* translation does not know), filter expressions, limits, prefixes, SELECT
\* lists, and OutputSpec objects (by identity).
BuilderArgs ==
  [ triples |->
      { Triple(Term("Variable", "id", "", ""),
               Term("NamedNode", "http://www.w3.org/1999/02/22-rdf-syntax-ns#type", "", ""),
               Term("NamedNode", "http://example.org/Person", "", "")),
        Triple(Term("BlankNode", "b0", "", ""),
               Term("NamedNode", "http://example.org/age", "", ""),
               Term("Literal", "42", "", "http://www.w3.org/2001/XMLSchema#int")),
        Triple(Term("Variable", "id", "", ""),
               Term("NamedNode", "http://example.org/name", "", ""),
               Term("DefaultGraph", "", "", "")) },
    filters |-> {"?age >= 18", "bound(?name)"},
    limits |-> {0, 10},
    prefixes |-> { <<"ex", "http://example.org/">>, <<"ex", "http://example.com/">>,
                   <<"rdf", "http://www.w3.org/1999/02/22-rdf-syntax-ns#">> },
    varLists |-> { <<Term("Variable", "id", "", "")>>,
                   <<Term("Variable", "id", "", ""), Term("Variable", "name", "", "")>> },
    specs |-> {"specA", "specB"} ]

\* A term of the sparqljs AST.  `datatype` is itself a node: a NamedNode with
\* the datatype IRI, or undefined.
AstTerm(termType, value, language, datatype) ==
  [termType |-> termType, value |-> value, language |-> language,
   datatype |-> IF datatype = "" THEN [termType |-> "undefined", value |-> ""]
                ELSE [termType |-> "NamedNode", value |-> datatype]]

\* SparqlBuilder.ts:222-237  (a Variable is passed through as it is)
TermToSparqlJs(term) ==
  CASE term.termType = "NamedNode" -> AstTerm("NamedNode", term.value, "", "")
    [] term.termType = "Literal" ->
         AstTerm("Literal", term.value, term.language, term.datatype)
    [] term.termType = "Variable" -> AstTerm("Variable", term.value, "", "")
    [] term.termType = "BlankNode" -> AstTerm("BlankNode", term.value, "", "")

\* A node of a WHERE list.  `arrays` names the fields of the node that hold
\* an array; a field not named there is absent from the node.
Node(type, arrays, triples, patterns, operator) ==
  [type |-> type, arrays |-> arrays, triples |-> triples, patterns |-> patterns,
   operator |-> operator]

\* SparqlBuilder.ts:167-183  the node of one entry of wherePatterns
PatternToNode(pattern) ==
  LET triple == Node("bgp", {"triples"},
                     <<Triple(TermToSparqlJs(pattern.subject),
                              TermToSparqlJs(pattern.predicate),
                              TermToSparqlJs(pattern.object))>>, <<>>, "")
  IN IF pattern.optional THEN Node("optional", {"patterns"}, <<>>, <<triple>>, "")
     ELSE triple

\* ------------------------------------------------------- the AST analyser
\* what a `for ... of` over a list finds where the AST holds null
NullNode == Node("null", {}, <<>>, <<>>, "")
NullTriple == Triple(AstTerm("null", "", "", ""), AstTerm("null", "", "", ""),
                     AstTerm("null", "", "", ""))

\* The nodes nested at most d levels deep.  The leaves: basic patterns
\* (sharing an identifier, and with variable, literal, blank and missing
\* terms), a filter, a service node without a pattern list, a null entry, and a
\* basic pattern whose triple list holds null.
RECURSIVE NodesUpTo(_)
NodesUpTo(d) ==
  IF d = 0
    THEN { Node("bgp", {"triples"},
                <<Triple(AstTerm("Variable", "x", "", ""),
                         AstTerm("NamedNode", "http://p", "", ""),
                         AstTerm("NamedNode", "http://o", "", ""))>>, <<>>, ""),
           Node("bgp", {"triples"},
                <<Triple(AstTerm("NamedNode", "http://s", "", ""),
                         AstTerm("NamedNode", "http://p", "", ""),
                         AstTerm("Literal", "http://lit", "", "http://dt")),
                  Triple(AstTerm("BlankNode", "http://b", "", ""),
                         AstTerm("NamedNode", "http://p2", "", ""),
                         AstTerm("undefined", "", "", ""))>>, <<>>, ""),
           Node("filter", {}, <<>>, <<>>, "?x > 1"),
           Node("service", {}, <<>>, <<>>, ""),
           NullNode,
           Node("bgp", {"triples"}, <<NullTriple>>, <<>>, "") }
    ELSE LET inner == NodesUpTo(d - 1)
         IN inner \cup { Node(w, {"patterns"}, <<>>, <<n>>, "") :
                           w \in {"optional", "group", "union"}, n \in inner }

\* What toSparqlAst() of a (possibly fake) builder hands to the analyser:
\* `where` is an array, is absent, or is something that is not an array;
\* `prefixes` is an object, is absent, or is null.
AstInputs ==
  LET nodes == NodesUpTo(MaxDepth)
      wheres == { <<"array", <<>>>>, <<"undefined", <<>>>>, <<"object", <<>>>> }
                  \cup { <<"array", <<n>>>> : n \in nodes }
                  \cup { <<"array", <<n, m>>>> : n \in nodes, m \in NodesUpTo(0) }
      maps == { <<"object", [s \in {"ex"} |-> "http://example.org/"]>>,
                <<"object", <<>>>>, <<"undefined", <<>>>>, <<"null", <<>>>> }
  IN { [whereType |-> w[1], where |-> w[2], prefixesType |-> p[1], prefixes |-> p[2]] :
         w \in wheres, p \in maps }

\* analyzeBuilder has not been called
NoAnalysis == [kind |-> "none", usedIris |-> <<>>, prefixes |-> <<>>, err |-> NoError]

\* a variant that also collects the datatype identifier of a literal
RECURSIVE CollectFromTriples_WithDatatypes(_, _)
CollectFromTriples_WithDatatypes(triples, acc) ==
  LET add(iris, term) ==
        IF term.termType = "NamedNode" /\ \A i \in 1..Len(iris) : iris[i] # term.value
          THEN Append(iris, term.value) ELSE iris
      t == Head(triples)
  IN IF triples = <<>> \/ acc.threw THEN acc
     ELSE IF t = NullTriple THEN [acc EXCEPT !.threw = TRUE]
     ELSE CollectFromTriples_WithDatatypes(Tail(triples),
            [acc EXCEPT !.iris = add(add(add(add(acc.iris, t.subject), t.predicate),
                                         t.object), t.object.datatype)])
\* ast.ts:17-23  the triples of one basic pattern; the Set keeps insertion
\* order and ignores a value it holds; reading a null triple throws
RECURSIVE CollectFromTriples(_, _)
CollectFromTriples(triples, acc) ==
  LET add(iris, term) ==
        IF term.termType = "NamedNode" /\ \A i \in 1..Len(iris) : iris[i] # term.value
          THEN Append(iris, term.value) ELSE iris
      t == Head(triples)
  IN IF triples = <<>> \/ acc.threw THEN acc
     ELSE IF t = NullTriple THEN [acc EXCEPT !.threw = TRUE]
     ELSE CollectFromTriples(Tail(triples),
            [acc EXCEPT !.iris = add(add(add(acc.iris, t.subject), t.predicate), t.object)])

\* a variant that descends into optional nodes only
Descends_OptionalOnly(p) == p.type = "optional" /\ "patterns" \in p.arrays
\* ast.ts:24, 26
Descends(p) ==
  \/ p.type = "optional" /\ "patterns" \in p.arrays
  \/ "patterns" \in p.arrays

\* ast.ts:13-30
RECURSIVE CollectFromPatterns(_, _)
CollectFromPatterns(patterns, acc) ==
  IF patterns = <<>> \/ acc.threw THEN acc
  ELSE LET p == Head(patterns)
           after == IF p = NullNode THEN acc
                    ELSE IF p.type = "bgp" /\ "triples" \in p.arrays
                      THEN CollectFromTriples(p.triples, acc)
                    ELSE IF Descends(p) THEN CollectFromPatterns(p.patterns, acc)
                    ELSE acc
       IN CollectFromPatterns(Tail(patterns), after)

\* a variant that uses `where` and `prefixes` as they come
AnalyzeBuilder_NoDefaults(a) ==
  IF a.whereType # "array"
    THEN [NoAnalysis EXCEPT !.kind = "thrown",
                            !.err = Err(NoStatus, "patterns is not iterable")]
  ELSE LET c == CollectFromPatterns(a.where, [iris |-> <<>>, threw |-> FALSE])
       IN IF c.threw
            THEN [NoAnalysis EXCEPT !.kind = "thrown",
                    !.err = Err(NoStatus, "Cannot read properties of null (reading 'subject')")]
            ELSE [NoAnalysis EXCEPT !.kind = "returned", !.usedIris = c.iris,
                                    !.prefixes = a.prefixes]
\* ast.ts:32-43
AnalyzeBuilder(a) ==
  LET where == IF a.whereType = "array" THEN a.where ELSE <<>>
      c == CollectFromPatterns(where, [iris |-> <<>>, threw |-> FALSE])
  IN IF c.threw
       THEN [NoAnalysis EXCEPT !.kind = "thrown",
               !.err = Err(NoStatus, "Cannot read properties of null (reading 'subject')")]
       ELSE [NoAnalysis EXCEPT !.kind = "returned", !.usedIris = c.iris,
               !.prefixes = IF a.prefixesType = "object" THEN a.prefixes ELSE <<>>]

\* ------------------------------------------------------------ the policies
\* What the policies are called with: a context (ctx.tenantId absent or a
\* string), the identifiers of usedIris, the quads of a row (absent or an
\* array; a quad's graph is a named node, the default graph, or absent).
Quad(s, p, o, g) == [subject |-> s, predicate |-> p, object |-> o, graph |-> g]

PolicyInputs ==
  LET iris == { "http://example.org/Person",
                "http://example.org",
                "http://www.w3.org/1999/02/22-rdf-syntax-ns#type",
                "https://data.example.com/acme/x",
                "https://data.example.com/a/b/x",
                "https://data.example.com/a%2Fb/x",
                "http://evil.example/x" }
      iri(value) == Term("NamedNode", value, "", "")
      lit == Term("Literal", "a", "", "")
      quads ==
        { Quad(iri("http://example.org/s"), iri("http://example.org/name"), lit,
               Term("DefaultGraph", "", "", "")),
          Quad(iri("http://example.org/s"), iri("http://evil.example/p"), lit,
               Term("undefined", "", "", "")),
          Quad(iri("http://example.org/s"),
               iri("http://www.w3.org/1999/02/22-rdf-syntax-ns#type"),
               iri("http://example.org/Person"), iri("http://evil.example/g")),
          Quad(iri("http://evil.example/s"), iri("http://example.org/name"),
               iri("http://evil.example/o"), iri("http://example.org/g")),
          Quad(iri("http://example.org/s"), Term("Variable", "http://evil.example/p", "", ""),
               lit, Term("Variable", "http://evil.example/g", "", "")),
          Quad(iri("http://example.org/s"), iri("http://evil.example/p"), lit,
               iri("http://evil.example/g")),
          Quad(iri("https://data.example.com/acme/s"), iri("https://data.example.com/acme/p"),
               lit, iri("https://data.example.com/acme/g")) }
  IN [ ctxs |-> { [t |-> "undefined", s |-> ""], [t |-> "string", s |-> ""],
                  [t |-> "string", s |-> "acme"], [t |-> "string", s |-> "a/b"] },
       usedIris |-> UNION { [1..n -> iris] : n \in 0..MaxIris },
       quads |-> { [t |-> "undefined", list |-> <<>>] }
                   \cup { [t |-> "array", list |-> l] :
                            l \in UNION { [1..n -> quads] : n \in 0..MaxQuads } } ]

\* encodeURIComponent, on the characters of the tenant ids above
RECURSIVE EncodeURIComponent(_)
EncodeURIComponent(s) ==
  IF Len(s) = 0 THEN ""
  ELSE (IF SubSeq(s, 1, 1) = "/" THEN "%2F"
        ELSE IF SubSeq(s, 1, 1) = " " THEN "%20" ELSE SubSeq(s, 1, 1))
         \o EncodeURIComponent(SubSeq(s, 2, Len(s)))

\* String.prototype.startsWith
StartsWith(str, prefix) == Len(prefix) <= Len(str) /\ SubSeq(str, 1, Len(prefix)) = prefix

\* part_004:17-29
GetAllowedNamespaces(ctx) ==
  << IF ctx.t = "string" /\ ctx.s # ""
       THEN "https://data.example.com/" \o EncodeURIComponent(ctx.s) \o "/"
       ELSE "http://example.org/",
     "http://www.w3.org/1999/02/22-rdf-syntax-ns#",
     "http://www.w3.org/2000/01/rdf-schema#",
     "http://www.w3.org/2001/XMLSchema#" >>

\* part_004:36, 51  allowed.some(ns => iri.startsWith(ns))
IsAllowed(allowed, iri) == \E k \in 1..Len(allowed) : StartsWith(iri, allowed[k])

\* part_004:39-41, 55-57, 61-63  the policy throws
Forbidden(what, iri) ==
  [kind |-> "rejected", err |-> Err(NumStatus(403), "Forbidden " \o what \o ": " \o iri)]

\* a variant that tests the first identifier only
AuthorizeOperationByNamespace_FirstOnly(ctx, usedIris) ==
  IF usedIris # <<>> /\ ~IsAllowed(GetAllowedNamespaces(ctx), usedIris[1])
    THEN Forbidden("namespace in query", usedIris[1])
    ELSE [kind |-> "resolved", err |-> NoError]
\* part_004:31-44  the loop throws at the first identifier that is not allowed
AuthorizeOperationByNamespace(ctx, usedIris) ==
  LET allowed == GetAllowedNamespaces(ctx)
      bad == { i \in 1..Len(usedIris) : ~IsAllowed(allowed, usedIris[i]) }
  IN IF bad = {} THEN [kind |-> "resolved", err |-> NoError]
     ELSE Forbidden("namespace in query",
                    usedIris[CHOOSE i \in bad : \A j \in bad : i <= j])

\* part_004:53-64  the checks on one quad: the predicate, then the graph
QuadOutcome(allowed, q) ==
  IF q.predicate.termType = "NamedNode" /\ ~IsAllowed(allowed, q.predicate.value)
    THEN Forbidden("predicate", q.predicate.value)
  ELSE IF q.graph.termType = "NamedNode" /\ ~IsAllowed(allowed, q.graph.value)
    THEN Forbidden("graph", q.graph.value)
  ELSE [kind |-> "resolved", err |-> NoError]

\* a variant that tests predicates only
AuthorizeRowByQuads_PredicateOnly(ctx, quads) ==
  LET allowed == GetAllowedNamespaces(ctx)
      bad == { i \in 1..Len(quads.list) :
                 /\ quads.list[i].predicate.termType = "NamedNode"
                 /\ ~IsAllowed(allowed, quads.list[i].predicate.value) }
  IN IF bad = {} THEN [kind |-> "resolved", err |-> NoError]
     ELSE Forbidden("predicate",
                    quads.list[CHOOSE i \in bad : \A j \in bad : i <= j].predicate.value)
\* part_004:46-66  the loop over quads ?? [] throws at the first quad that fails
AuthorizeRowByQuads(ctx, quads) ==
  LET allowed == GetAllowedNamespaces(ctx)
      list == IF quads.t = "array" THEN quads.list ELSE <<>>
      bad == { i \in 1..Len(list) : QuadOutcome(allowed, list[i]).kind = "rejected" }
  IN IF bad = {} THEN [kind |-> "resolved", err |-> NoError]
     ELSE QuadOutcome(allowed, list[CHOOSE i \in bad : \A j \in bad : i <= j])

\* no policy has been called
NoPolicyCall ==
  [fn |-> "none", ctx |-> [t |-> "undefined", s |-> ""], usedIris |-> <<>>,
   quads |-> [t |-> "undefined", list |-> <<>>], kind |-> "none", err |-> NoError]

\* ---------------------------------------------------------------- state
VARIABLES
  pc,          \* where handle is (the stages of the request)
  method,      \* request.method
  body,        \* what request.json() will find
  hasAuthOp,   \* options.authorizeOperation is supplied
  hasAuthRow,  \* options.authorizeRow is supplied
  hasLogger,   \* options.logger is supplied
  op,          \* `let op` of handle: the operation name for meta
  params,      \* the validated params
  builderSpec, \* builder.getOutputSpec() is defined
  pulled,      \* rows taken from the row sequence so far
  row,         \* the row of the current loop iteration
  results,     \* `results`: the DTOs collected so far
  rowLog,      \* history: how each finished row iteration ended
  logged,      \* history: the values passed to the injected logger
  caught,      \* the value caught by handle's outer catch and the stage it left
  response,    \* the Response handle resolved with
  rejection,   \* the value handle's promise rejected with, if any
  calls        \* history: the collaborator calls made, in order

\* one call of shapeAndMapAll(builder, rows)
VARIABLES
  spc,         \* where shapeAndMapAll is
  sHasSpec,    \* builder.getOutputSpec() is defined
  sPulled,     \* rows taken from `rows` so far
  sRow,        \* the row of the current iteration
  sResults,    \* `results`
  sRowLog,     \* history: how each row iteration ended
  sWarned,     \* history: the values reported through console.warn
  sThrown,     \* the value shapeAndMapAll rejected with, if any
  sReturned,   \* the array shapeAndMapAll resolved with
  sOneLog      \* history: how the steps of a shapeAndMapOne call ended

\* the engine adapter module (part_009) and the execQuery calls of one process
VARIABLES
  grapherInstalled,      \* import('@gftdcojp/grapher/quick-start') succeeds
  comunicaShape,         \* the methods an instance of Comunica's QueryEngine exposes
  probe,                 \* the availability check started at module load
  availableEngine,       \* `let availableEngine`
  defaultGrapherEngine,  \* `let defaultGrapherEngine`
  defaultComunicaEngine, \* `let defaultComunicaEngine`
  created,               \* history: the default engines constructed, in order
  xq,                    \* the execQuery calls: where each is and what it holds
  overlapped             \* history: some call started while another was pending

\* one SparqlBuilder and the calls made on it
VARIABLES
  prefixes,      \* `prefixes`: short name -> namespace IRI
  variables,     \* `variables`: the SELECT list
  wherePatterns, \* `wherePatterns`: the triples added, each with its optional flag
  filters,       \* `filters`: the filter expressions added
  limitValue,    \* `limitValue`
  outputSpec,    \* `outputSpec`
  opLog,         \* history: the calls made on the builder, in order
  returned       \* what the last call returned or threw

\* one call of analyzeBuilder
VARIABLES
  astIn,         \* what builder.toSparqlAst() returned
  analysis       \* what analyzeBuilder returned or threw

\* the policy templates
VARIABLES
  polCall        \* the last call of a policy: its input and how it ended

\* the row sequence execQuery returns for the result of a query(language, text) call
VARIABLES
  rowGen         \* the generator: the result it reads, where it is, the rows it gave

handleVars == <<pc, method, body, hasAuthOp, hasAuthRow, hasLogger, op, params,
                builderSpec, pulled, row, results, rowLog, logged, caught,
                response, rejection, calls>>

shaperVars == <<spc, sHasSpec, sPulled, sRow, sResults, sRowLog, sWarned, sThrown,
                sReturned, sOneLog>>

execVars == <<grapherInstalled, comunicaShape, probe, availableEngine,
              defaultGrapherEngine, defaultComunicaEngine, created, xq, overlapped>>

builderVars == <<prefixes, variables, wherePatterns, filters, limitValue, outputSpec,
                 opLog, returned>>

\* the server: handle, shapeAndMapAll and the engine adapter
serverVars == <<handleVars, shaperVars, execVars>>

vars == <<serverVars, builderVars, astIn, analysis, polCall, rowGen>>

\* what a step of handle leaves alone
notHandle == <<shaperVars, execVars, builderVars, astIn, analysis, polCall, rowGen>>

\* what a step of shapeAndMapAll leaves alone
notShaper == <<handleVars, execVars, builderVars, astIn, analysis, polCall, rowGen>>

\* what a step of the engine adapter leaves alone
notExec == <<handleVars, shaperVars, builderVars, astIn, analysis, polCall, rowGen>>

options == <<method, body, hasAuthOp, hasAuthRow, hasLogger>>

Call(name, r) == [call |-> name, row |-> r]

RowEnd(r, outcome, step, e, dto) ==
  [row |-> r, outcome |-> outcome, step |-> step, err |-> e, dto |-> dto]

NoCatch == [err |-> NoError, at |-> ""]

\* An engine: a default instance (numbered in order of construction) or the
\* handle passed by the caller, and the methods it exposes.
Engine(origin, id, shape) == [origin |-> origin, id |-> id, shape |-> shape]
NoEngine == Engine("null", 0, "none")

\* One execQuery call.
NoCall ==
  [pc |-> "Idle", engine |-> "none", kindRead |-> "none", queryEngine |-> NoEngine,
   branch |-> "none", backendCalls |-> 0, backendErr |-> NoError, error |-> NoError,
   yielded |-> 0]

\* the engine adapter module is not loaded
ExecIdle ==
  /\ grapherInstalled = FALSE
  /\ comunicaShape = "bindingsOnly"
  /\ probe = "unloaded"
  /\ availableEngine = "comunica"
  /\ defaultGrapherEngine = NoEngine
  /\ defaultComunicaEngine = NoEngine
  /\ created = <<>>
  /\ xq = [c \in 1..MaxCalls |-> NoCall]
  /\ overlapped = FALSE

\* no call of shapeAndMapAll is in progress
ShaperIdle ==
  /\ spc = "Idle"
  /\ sHasSpec = FALSE
  /\ sPulled = 0
  /\ sRow = NoRow
  /\ sResults = <<>>
  /\ sRowLog = <<>>
  /\ sWarned = <<>>
  /\ sThrown = NoError
  /\ sReturned = <<>>
  /\ sOneLog = <<>>

\* SparqlBuilder.ts:33-44  a builder as constructed: no call has returned
\* anything yet
NoResult ==
  [kind |-> "none",
   ast |-> [queryType |-> "none", variables |-> <<>>, where |-> <<>>,
            prefixes |-> [ref |-> "this.prefixes"], limit |-> [defined |-> FALSE, n |-> 0]],
   spec |-> "undefined", err |-> NoError]

BuilderIdle ==
  /\ prefixes = <<>>
  /\ variables = <<>>
  /\ wherePatterns = <<>>
  /\ filters = <<>>
  /\ limitValue = [defined |-> FALSE, n |-> 0]
  /\ outputSpec = "undefined"
  /\ opLog = <<>>
  /\ returned = NoResult

\* analyzeBuilder is not being called
AstIdle ==
  /\ astIn = [whereType |-> "undefined", where |-> <<>>, prefixesType |-> "undefined",
              prefixes |-> <<>>]
  /\ analysis = NoAnalysis

\* no row sequence of a query(language, text) result is being read
TranscodeIdle ==
  rowGen = [pc |-> "none", isArray |-> FALSE, data |-> <<>>, pos |-> 0, yielded |-> <<>>]
\* no request is being handled
HandleIdle ==
  /\ pc = "Idle"
  /\ method = "POST"
  /\ body = Body("notjson", OpAbsent, "undefined")
  /\ hasAuthOp = FALSE
  /\ hasAuthRow = FALSE
  /\ hasLogger = FALSE
  /\ op = ""
  /\ params = "undefined"
  /\ builderSpec = FALSE
  /\ pulled = 0
  /\ row = NoRow
  /\ results = <<>>
  /\ rowLog = <<>>
  /\ logged = <<>>
  /\ caught = NoCatch
  /\ response = NoResponse
  /\ rejection = NoError
  /\ calls = <<>>

Init ==
  /\ polCall = NoPolicyCall
  /\ TranscodeIdle
  /\ ShaperIdle
  /\ ExecIdle
  /\ BuilderIdle
  /\ AstIdle
  /\ pc = "Start"
  /\ method \in Methods
  /\ body \in Bodies
  /\ hasAuthOp \in BOOLEAN
  /\ hasAuthRow \in BOOLEAN
  /\ hasLogger \in BOOLEAN
  /\ op = ""
  /\ params = "undefined"
  /\ builderSpec = FALSE
  /\ pulled = 0
  /\ row = NoRow
  /\ results = <<>>
  /\ rowLog = <<>>
  /\ logged = <<>>
  /\ caught = NoCatch
  /\ response = NoResponse
  /\ rejection = NoError
  /\ calls = <<>>

\* part_001:85-86, 107-108  const log = logger ?? (() => {}); log(e)
Log(e) == logged' = IF hasLogger THEN Append(logged, e) ELSE logged

\* part_001:113-119  jsonError called from the catch block: the Response
\* constructor throws for a status it does not accept, and nothing catches it
JsonErrorFromCatch(status, name, message, o) ==
  IF ResponseStatusOk(status)
    THEN /\ response' = ErrorResponse(status, name, message, o)
         /\ rejection' = rejection
         /\ pc' = "Failed"
    ELSE /\ response' = response
         /\ rejection' = ResponseRangeError
         /\ pc' = "Rejected"

\* part_001:100-110  the outer catch
Catch(e) ==
  /\ caught' = [err |-> e, at |-> pc]
  /\ Log(e)
  /\ JsonErrorFromCatch(ErrorStatus(e), ErrorName(e), ErrorMessage(e), op)

\* Variant: no try/catch inside the row loop, a row failure reaches the
\* outer catch.
SkipRow_Aborts(step, e) ==
  /\ rowLog' = Append(rowLog, RowEnd(row.id, "skipped", step, e, Dto(NoRow, FALSE)))
  /\ results' = results
  /\ Catch(e)

\* Variant: the row loop rethrows a missing focus node, as shapeAndMapAll does.
SkipRow_FocusAborts(step, e) ==
  IF step = "focusNode"
    THEN /\ rowLog' = Append(rowLog, RowEnd(row.id, "skipped", step, e, Dto(NoRow, FALSE)))
         /\ results' = results
         /\ Catch(e)
    ELSE /\ Log(e)
         /\ rowLog' = Append(rowLog, RowEnd(row.id, "skipped", step, e, Dto(NoRow, FALSE)))
         /\ pc' = "ShapingRows"
         /\ UNCHANGED <<results, caught, response, rejection>>

\* part_001:83-88  the catch inside the row loop: log and continue
SkipRow(step, e) ==
  /\ Log(e)
  /\ rowLog' = Append(rowLog, RowEnd(row.id, "skipped", step, e, Dto(NoRow, FALSE)))
  /\ pc' = "ShapingRows"
  /\ UNCHANGED <<results, caught, response, rejection>>

\* the row loop's try block goes on to its next statement
NextStep(stage) ==
  /\ pc' = stage
  /\ UNCHANGED <<results, rowLog, logged, caught, response, rejection>>

\* Variant: the DTO is put in front of the ones collected so far.
PushRow_Prepends(out) ==
  /\ results' = <<out.dto>> \o results
  /\ rowLog' = Append(rowLog, RowEnd(row.id, "pushed", out.step, NoError, out.dto))
  /\ pc' = "ShapingRows"
  /\ UNCHANGED <<logged, caught, response, rejection>>
\* part_001:82  results.push(dto), and on to the next row
PushRow(out) ==
  /\ results' = Append(results, out.dto)
  /\ rowLog' = Append(rowLog, RowEnd(row.id, "pushed", out.step, NoError, out.dto))
  /\ pc' = "ShapingRows"
  /\ UNCHANGED <<logged, caught, response, rejection>>

\* Variant: the method is not looked at.
CheckMethod_AnyMethod ==
  /\ pc = "Start"
  /\ response' = response
  /\ pc' = "ReceivingEnvelope"
  /\ UNCHANGED <<notHandle, options, op, params, builderSpec, pulled, row, results, rowLog,
                 logged, caught, rejection, calls>>

\* part_001:32-37
CheckMethod ==
  /\ pc = "Start"
  /\ IF method # "POST"
       THEN /\ response' = ErrorResponse(405, "MethodNotAllowed", "Use POST", "")
            /\ pc' = "Failed"
       ELSE /\ response' = response
            /\ pc' = "ReceivingEnvelope"
  /\ UNCHANGED <<notHandle, options, op, params, builderSpec, pulled, row, results, rowLog,
                 logged, caught, rejection, calls>>

\* part_001:41-43
ParseEnvelope ==
  /\ pc = "ReceivingEnvelope"
  /\ calls' = Append(calls, Call("request.json", 0))
  /\ IF body.kind = "notjson"
       THEN Catch(JsonSyntaxError) /\ op' = op
       ELSE IF ~RequestEnvelopeAccepts(body)
              THEN Catch(Zod(NoStatus, "Invalid envelope")) /\ op' = op
              ELSE /\ op' = body.operation.s
                   /\ pc' = "ResolvingOperation"
                   /\ UNCHANGED <<logged, caught, response, rejection>>
  /\ UNCHANGED <<notHandle, options, params, builderSpec, pulled, row, results, rowLog>>

\* part_001:45-48
ResolveOperation ==
  /\ pc = "ResolvingOperation"
  /\ calls' = Append(calls, Call("registry", 0))
  /\ IF RegistryLookup(op) = "undefined"
       THEN /\ response' = ErrorResponse(404, "OperationNotFound",
                                      "Unknown operation: " \o op, op)
            /\ pc' = "Failed"
       ELSE /\ response' = response
            /\ pc' = "ValidatingParams"
  /\ UNCHANGED <<notHandle, options, op, params, builderSpec, pulled, row, results, rowLog,
                 logged, caught, rejection>>

\* part_001:51
ValidateParams ==
  /\ pc = "ValidatingParams"
  /\ calls' = Append(calls, Call("params.parse", 0))
  /\ IF RegistryLookup(op) = "inherited"
       THEN Catch(ParamsTypeError) /\ params' = params
       ELSE IF ~ParamsSchemaAccepts(op, ParamsOrDefault(body.params))
              THEN Catch(Zod(NoStatus, "Invalid params")) /\ params' = params
              ELSE /\ params' = ParamsOrDefault(body.params)
                   /\ pc' = "Building"
                   /\ UNCHANGED <<logged, caught, response, rejection>>
  /\ UNCHANGED <<notHandle, options, op, builderSpec, pulled, row, results, rowLog>>

\* Variant: the query is executed right after it is built, and
\* authorizeOperation is not consulted.
Build_SkipsAuthorization ==
  /\ pc = "Building"
  /\ calls' = Append(calls, Call("build", 0))
  /\ \/ \E e \in HookErrors : Catch(e) /\ builderSpec' = builderSpec
     \/ /\ builderSpec' \in BOOLEAN
        /\ pc' = "Executing"
        /\ UNCHANGED <<logged, caught, response, rejection>>
  /\ UNCHANGED <<notHandle, options, op, params, pulled, row, results, rowLog>>
\* part_001:55-56  def.build(params, ctx), then analyzeBuilder(builder)
Build ==
  /\ pc = "Building"
  /\ calls' = Append(calls, Call("build", 0))
  /\ \/ \E e \in HookErrors : Catch(e) /\ builderSpec' = builderSpec
     \/ /\ builderSpec' \in BOOLEAN
        /\ pc' = "AuthorizingOperation"
        /\ UNCHANGED <<logged, caught, response, rejection>>
  /\ UNCHANGED <<notHandle, options, op, params, pulled, row, results, rowLog>>

\* part_001:59-61
AuthorizeOperation ==
  /\ pc = "AuthorizingOperation"
  /\ IF hasAuthOp
       THEN /\ calls' = Append(calls, Call("authorizeOperation", 0))
            /\ \/ \E e \in HookErrors : Catch(e)
               \/ /\ pc' = "Executing"
                  /\ UNCHANGED <<logged, caught, response, rejection>>
       ELSE /\ calls' = calls
            /\ pc' = "Executing"
            /\ UNCHANGED <<logged, caught, response, rejection>>
  /\ UNCHANGED <<notHandle, options, op, params, builderSpec, pulled, row, results, rowLog>>

\* part_001:64  await execQuery(builder, engine, sources)
Execute ==
  /\ pc = "Executing"
  /\ calls' = Append(calls, Call("execQuery", 0))
  /\ \/ Catch(QueryExecutionFailed)
     \/ /\ pc' = "CheckingOutputSpec"
        /\ UNCHANGED <<logged, caught, response, rejection>>
  /\ UNCHANGED <<notHandle, options, op, params, builderSpec, pulled, row, results, rowLog>>

\* Variant: no OutputSpec check before the row loop.
CheckOutputSpec_Skipped ==
  /\ pc = "CheckingOutputSpec"
  /\ pc' = "ShapingRows"
  /\ UNCHANGED <<logged, caught, response, rejection>>
  /\ UNCHANGED <<notHandle, options, op, params, builderSpec, pulled, row, results, rowLog, calls>>

\* part_001:67-72
CheckOutputSpec ==
  /\ pc = "CheckingOutputSpec"
  /\ IF ~builderSpec
       THEN Catch(OutputSpecMissingServe)
       ELSE /\ pc' = "ShapingRows"
            /\ UNCHANGED <<logged, caught, response, rejection>>
  /\ UNCHANGED <<notHandle, options, op, params, builderSpec, pulled, row, results, rowLog, calls>>

\* part_001:73  for await (const row of rows): the next row, the end of the
\* sequence, or a failure of the sequence itself
PullRow ==
  /\ pc = "ShapingRows"
  /\ calls' = Append(calls, Call("rows.next", pulled + 1))
  /\ \/ /\ pulled < MaxRows
        /\ \E focus \in BOOLEAN : row' = Row(pulled + 1, focus)
        /\ pulled' = pulled + 1
        /\ pc' = "BuildingQuads"
        /\ UNCHANGED <<logged, caught, response, rejection>>
     \/ /\ row' = row
        /\ pulled' = pulled
        /\ pc' = "ValidatingResult"
        /\ UNCHANGED <<logged, caught, response, rejection>>
     \/ /\ row' = row
        /\ pulled' = pulled
        /\ \E e \in StreamErrors : Catch(e)
  /\ UNCHANGED <<notHandle, options, op, params, builderSpec, results, rowLog>>

\* part_001:76
BuildQuads ==
  /\ pc = "BuildingQuads"
  /\ calls' = Append(calls, Call("buildQuads", row.id))
  /\ \/ \E e \in RowErrors : SkipRow("buildQuads", e)
     \/ NextStep("AuthorizingRow")
  /\ UNCHANGED <<notHandle, options, op, params, builderSpec, pulled, row>>

\* Variant: a denial by authorizeRow is logged but the row is shaped anyway.
AuthorizeRow_IgnoresDenial ==
  /\ pc = "AuthorizingRow"
  /\ IF hasAuthRow
       THEN /\ calls' = Append(calls, Call("authorizeRow", row.id))
            /\ \/ \E e \in RowErrors :
                    /\ Log(e)
                    /\ rowLog' = Append(rowLog, RowEnd(row.id, "skipped", "authorizeRow",
                                                       e, Dto(NoRow, FALSE)))
                    /\ pc' = "ValidatingMapping"
                    /\ UNCHANGED <<results, caught, response, rejection>>
               \/ NextStep("ValidatingMapping")
       ELSE /\ calls' = calls
            /\ NextStep("ValidatingMapping")
  /\ UNCHANGED <<notHandle, options, op, params, builderSpec, pulled, row>>

\* part_001:77-79
AuthorizeRow ==
  /\ pc = "AuthorizingRow"
  /\ IF hasAuthRow
       THEN /\ calls' = Append(calls, Call("authorizeRow", row.id))
            /\ \/ \E e \in RowErrors : SkipRow("authorizeRow", e)
               \/ NextStep("ValidatingMapping")
       ELSE /\ calls' = calls
            /\ NextStep("ValidatingMapping")
  /\ UNCHANGED <<notHandle, options, op, params, builderSpec, pulled, row>>

\* part_001:81-82  const dto = await shapeAndMapOne(builder, row); results.push(dto)
ShapeRow ==
  /\ pc = "ValidatingMapping"
  /\ calls' = Append(calls, Call("shapeAndMapOne", row.id))
  /\ \E out \in ShapeAndMapOne(builderSpec, row) :
       IF out.kind = "throw" THEN SkipRow(out.step, out.err) ELSE PushRow(out)
  /\ UNCHANGED <<notHandle, options, op, params, builderSpec, pulled, row>>

IsTyped(dto) == dto.typed

\* Variant: DTOs that fail the result schema are dropped and the rest returned.
ValidateResult_DropsInvalid ==
  /\ pc = "ValidatingResult"
  /\ calls' = Append(calls, Call("resultItem.parse", 0))
  /\ results' = SelectSeq(results, IsTyped)
  /\ response' = SuccessResponse(op, SelectSeq(results, IsTyped))
  /\ pc' = "Responding"
  /\ UNCHANGED <<logged, caught, rejection>>
  /\ UNCHANGED <<notHandle, options, op, params, builderSpec, pulled, row, rowLog>>

\* part_001:92-99  the collected DTOs are parsed against the result schema
\* (the success envelope parses the same array with the same schema again)
ValidateResult ==
  /\ pc = "ValidatingResult"
  /\ calls' = Append(calls, Call("resultItem.parse", 0))
  /\ IF ~ResultSchemaAccepts(results)
       THEN Catch(Zod(NoStatus, "Invalid result"))
       ELSE /\ response' = SuccessResponse(op, results)
            /\ pc' = "Responding"
            /\ UNCHANGED <<logged, caught, rejection>>
  /\ UNCHANGED <<notHandle, options, op, params, builderSpec, pulled, row, results, rowLog>>

Next ==
  \/ CheckMethod
  \/ ParseEnvelope
  \/ ResolveOperation
  \/ ValidateParams
  \/ Build
  \/ AuthorizeOperation
  \/ Execute
  \/ CheckOutputSpec
  \/ PullRow
  \/ BuildQuads
  \/ AuthorizeRow
  \/ ShapeRow
  \/ ValidateResult

Spec == Init /\ [][Next]_vars

\* ------------------------------------------------------- shapeAndMapAll
\* What buildQuads and mapToObject may throw in a call of shapeAndMapAll: an
\* Error, a value that is not an Error, an Error whose message happens to
\* mention the focus-node option.
ShaperCallbackErrors ==
  { Err(NoStatus, "boom"), Prim(7), Err(NoStatus, "bad focusNodeVar mapping") }

\* What the shape validator may reject with.
ShaperValidatorErrors ==
  { ValidationFailed, Err(NoStatus, "focusNodeVar is not a sh:NodeShape target") }

\* String.prototype.includes
Includes(str, sub) ==
  \E i \in 1..(Len(str) - Len(sub) + 1) : SubSeq(str, i, i + Len(sub) - 1) = sub

\* Variant: the catch of shapeAndMapAll rethrows every Error.
Rethrown_AnyError(e) == IsErrorInstance(e)
\* Variant: the catch of shapeAndMapAll rethrows nothing.
Rethrown_Never(e) == FALSE

\* shaper.ts:72  error instanceof Error && error.message.includes('focusNodeVar')
Rethrown(e) == IsErrorInstance(e) /\ Includes(e.message, "focusNodeVar")

ShaperInit ==
  /\ polCall = NoPolicyCall
  /\ TranscodeIdle
  /\ ExecIdle
  /\ BuilderIdle
  /\ AstIdle
  /\ pc = "Idle"
  /\ method = "POST"
  /\ body = Body("notjson", OpAbsent, "undefined")
  /\ hasAuthOp = FALSE
  /\ hasAuthRow = FALSE
  /\ hasLogger = FALSE
  /\ op = ""
  /\ params = "undefined"
  /\ builderSpec = FALSE
  /\ pulled = 0
  /\ row = NoRow
  /\ results = <<>>
  /\ rowLog = <<>>
  /\ logged = <<>>
  /\ caught = NoCatch
  /\ response = NoResponse
  /\ rejection = NoError
  /\ calls = <<>>
  /\ spc = "Start"
  /\ sHasSpec \in BOOLEAN
  /\ sPulled = 0
  /\ sRow = NoRow
  /\ sResults = <<>>
  /\ sRowLog = <<>>
  /\ sWarned = <<>>
  /\ sThrown = NoError
  /\ sReturned = <<>>
  /\ sOneLog = <<>>

\* shaper.ts:45-51
ShaperStart ==
  /\ spc = "Start"
  /\ IF ~sHasSpec
       THEN /\ sThrown' = Err(NoStatus,
                 "OutputSpec must be set on SparqlBuilder before calling shapeAndMapAll")
            /\ spc' = "Thrown"
       ELSE /\ sThrown' = sThrown
            /\ spc' = "Pulling"
  /\ UNCHANGED <<notShaper, sHasSpec, sPulled, sRow, sResults, sRowLog, sWarned,
                 sReturned, sOneLog>>

\* shaper.ts:53, 81  for await (const row of rows): the next row, the end of
\* the sequence (return results), or a failure of the sequence itself
ShaperPull ==
  /\ spc = "Pulling"
  /\ \/ /\ sPulled < MaxRows
        /\ \E focus \in BOOLEAN : sRow' = Row(sPulled + 1, focus)
        /\ sPulled' = sPulled + 1
        /\ spc' = "Processing"
        /\ UNCHANGED <<sThrown, sReturned>>
     \/ /\ sReturned' = sResults
        /\ spc' = "Returned"
        /\ UNCHANGED <<sRow, sPulled, sThrown>>
     \/ /\ sThrown' = StreamFailed
        /\ spc' = "Thrown"
        /\ UNCHANGED <<sRow, sPulled, sReturned>>
  /\ UNCHANGED <<notShaper, sHasSpec, sResults, sRowLog, sWarned, sOneLog>>

\* Variant: a row whose steps threw is still mapped and pushed.
ShaperRow_PushesFailedRow ==
  /\ spc = "Processing"
  /\ \E out \in RowSteps(sRow, ShaperCallbackErrors, ShaperValidatorErrors) :
       IF out.kind = "throw"
         THEN /\ sResults' = Append(sResults, Dto(sRow, TRUE))
              /\ sRowLog' = Append(sRowLog, RowEnd(sRow.id, "skipped", out.step, out.err,
                                                   Dto(NoRow, FALSE)))
              /\ sWarned' = Append(sWarned, out.err)
              /\ sThrown' = sThrown
              /\ spc' = "Pulling"
         ELSE /\ sResults' = Append(sResults, out.dto)
              /\ sRowLog' = Append(sRowLog, RowEnd(sRow.id, "pushed", out.step, NoError,
                                                   out.dto))
              /\ spc' = "Pulling"
              /\ UNCHANGED <<sWarned, sThrown>>
  /\ UNCHANGED <<notShaper, sHasSpec, sPulled, sRow, sReturned, sOneLog>>

\* shaper.ts:54-78  one iteration: the four steps inside try, and the catch
ShaperRow ==
  /\ spc = "Processing"
  /\ \E out \in RowSteps(sRow, ShaperCallbackErrors, ShaperValidatorErrors) :
       IF out.kind = "throw"
         THEN IF Rethrown(out.err)
                THEN /\ sThrown' = out.err
                     /\ sRowLog' = Append(sRowLog, RowEnd(sRow.id, "rethrown", out.step,
                                                          out.err, Dto(NoRow, FALSE)))
                     /\ spc' = "Thrown"
                     /\ UNCHANGED <<sResults, sWarned>>
                ELSE /\ sWarned' = Append(sWarned, out.err)
                     /\ sRowLog' = Append(sRowLog, RowEnd(sRow.id, "skipped", out.step,
                                                          out.err, Dto(NoRow, FALSE)))
                     /\ spc' = "Pulling"
                     /\ UNCHANGED <<sResults, sThrown>>
         ELSE /\ sResults' = Append(sResults, out.dto)
              /\ sRowLog' = Append(sRowLog, RowEnd(sRow.id, "pushed", out.step, NoError,
                                                   out.dto))
              /\ spc' = "Pulling"
              /\ UNCHANGED <<sWarned, sThrown>>
  /\ UNCHANGED <<notShaper, sHasSpec, sPulled, sRow, sReturned, sOneLog>>

\* shaper.ts:94-119  the caller invokes shapeAndMapOne(builder, row) instead:
\* it resolves with the DTO or rejects, and the row's steps are on record
\* only if the OutputSpec check let them start
ShapeOneCall ==
  /\ spc = "Start"
  /\ \E focus \in BOOLEAN :
       /\ sRow' = Row(1, focus)
       /\ \E out \in ShapeAndMapOne(sHasSpec, Row(1, focus)) :
            /\ sOneLog' = IF out.step = "getOutputSpec" THEN sOneLog
                          ELSE Append(sOneLog,
                                      RowEnd(1, IF out.kind = "throw" THEN "thrown" ELSE "returned",
                                             out.step, out.err, out.dto))
            /\ IF out.kind = "throw"
                 THEN /\ sThrown' = out.err
                      /\ sReturned' = sReturned
                      /\ spc' = "OneThrown"
                 ELSE /\ sThrown' = sThrown
                      /\ sReturned' = <<out.dto>>
                      /\ spc' = "OneReturned"
  /\ UNCHANGED <<notShaper, sHasSpec, sPulled, sResults, sRowLog, sWarned>>

ShaperNext ==
  \/ ShaperStart
  \/ ShaperPull
  \/ ShaperRow
  \/ ShapeOneCall

SpecShaper == ShaperInit /\ [][ShaperNext]_vars

\* ------------------------------------------------------- the engine adapter
\* The `engine` argument of execQuery: absent, or a handle exposing only
\* queryBindings, only query(language, text), or both.
EngineArgs == {"none", "bindingsOnly", "queryOnly", "both"}

\* part_009:200  typeof queryEngine.query === 'function' && queryEngine.query.length >= 2
HasQuery2(shape) == shape \in {"queryOnly", "both"}

\* part_009:235  queryEngine.queryBindings is callable
HasQueryBindings(shape) == shape \in {"bindingsOnly", "both"}

\* What a backend call (query, queryBindings) may reject with.
BackendErrors ==
  { Err(NoStatus, "connect ECONNREFUSED"),
    Err(NumStatus(400), "Parse error on line 1"),
    Prim(42) }

\* SparqlBuilder.ts:238  builder.toString() over a term of unknown kind
UnsupportedTerm == Err(NoStatus, "Unsupported term type: Quad")

\* part_009:202  calling a method the engine does not have
NotAFunction == Err(NoStatus, "queryEngine.query is not a function")

\* Variant: the construction failure is wrapped like a failure of the backend call.
FailedToCreate_Wrapped(kind) ==
  Err(NoStatus, "SPARQL query execution failed: Failed to create default engine")
\* part_009:150, 160
FailedToCreate(kind) ==
  IF kind = "grapher"
    THEN Err(NoStatus, "Failed to create default GraphQueryEngine: init failed")
    ELSE Err(NoStatus, "Failed to create default Comunica QueryEngine: init failed")

\* Variant: the catch of execQuery rethrows what it caught.
WrapExecutionError_Rethrows(e) == e

\* part_009:276
WrapExecutionError(e) ==
  Err(NoStatus, "SPARQL query execution failed: " \o ErrorMessage(e))

\* an execQuery call whose promise has not settled
Pending(c) == xq[c].pc \in {"Importing", "Creating", "Resuming", "AwaitingBackend"}

\* Variant: getDefaultEngine never finds a cached instance.
CacheSlot_AlwaysEmpty(kind) == NoEngine

\* part_009:138, 153, 163  the cache slot of a backend kind
CacheSlot(kind) == IF kind = "grapher" THEN defaultGrapherEngine ELSE defaultComunicaEngine

ExecInit ==
  /\ polCall = NoPolicyCall
  /\ TranscodeIdle
  /\ ShaperIdle
  /\ BuilderIdle
  /\ AstIdle
  /\ pc = "Idle"
  /\ method = "POST"
  /\ body = Body("notjson", OpAbsent, "undefined")
  /\ hasAuthOp = FALSE
  /\ hasAuthRow = FALSE
  /\ hasLogger = FALSE
  /\ op = ""
  /\ params = "undefined"
  /\ builderSpec = FALSE
  /\ pulled = 0
  /\ row = NoRow
  /\ results = <<>>
  /\ rowLog = <<>>
  /\ logged = <<>>
  /\ caught = NoCatch
  /\ response = NoResponse
  /\ rejection = NoError
  /\ calls = <<>>
  /\ grapherInstalled \in BOOLEAN
  /\ comunicaShape \in {"bindingsOnly", "both"}
  /\ probe = "pending"
  /\ availableEngine = "comunica"
  /\ defaultGrapherEngine = NoEngine
  /\ defaultComunicaEngine = NoEngine
  /\ created = <<>>
  /\ xq = [c \in 1..MaxCalls |-> NoCall]
  /\ overlapped = FALSE

\* part_009:114-128  the availability check settles
ProbeResolves ==
  /\ probe = "pending"
  /\ probe' = "done"
  /\ availableEngine' = IF grapherInstalled THEN "grapher" ELSE availableEngine
  /\ UNCHANGED <<notExec, grapherInstalled, comunicaShape, defaultGrapherEngine,
                 defaultComunicaEngine, created, xq, overlapped>>

\* part_009:199-203, 233-237, 269-277  choose the branch and call the backend;
\* a call of a missing method throws inside the try and is wrapped
Dispatch(call) ==
  LET branch == IF availableEngine = "grapher" \/ HasQuery2(call.queryEngine.shape)
                  THEN "grapher" ELSE "comunica"
      callable == IF branch = "grapher" THEN HasQuery2(call.queryEngine.shape)
                  ELSE HasQueryBindings(call.queryEngine.shape)
  IN IF callable
       THEN [call EXCEPT !.pc = "AwaitingBackend", !.branch = branch,
                         !.backendCalls = @ + 1]
       ELSE [call EXCEPT !.pc = "Rejected", !.branch = branch,
                         !.error = WrapExecutionError(NotAFunction)]

\* part_009:196-197, 137-139, 153-155, 163  execQuery is called: the query
\* text is rendered; with a handle the backend is called at once, without one
\* getDefaultEngine returns the cached instance or starts to import a backend
ExecQueryStart(c) ==
  /\ xq[c].pc = "Idle"
  /\ IF c = 1 THEN TRUE ELSE xq[c - 1].pc # "Idle"
  /\ overlapped' = (overlapped \/ \E d \in 1..MaxCalls : Pending(d))
  /\ \E h \in EngineArgs, rendered \in BOOLEAN :
       LET call == [xq[c] EXCEPT !.engine = h]
       IN xq' = [xq EXCEPT ![c] =
            IF ~rendered
              THEN [call EXCEPT !.pc = "Rejected", !.error = UnsupportedTerm]
            ELSE IF h # "none"
              THEN Dispatch([call EXCEPT !.queryEngine = Engine("handle", 0, h)])
            ELSE IF CacheSlot(availableEngine) # NoEngine
              THEN [call EXCEPT !.pc = "Resuming", !.kindRead = availableEngine,
                                !.queryEngine = CacheSlot(availableEngine)]
            ELSE [call EXCEPT !.pc = "Importing", !.kindRead = availableEngine]]
  /\ UNCHANGED <<notExec, grapherInstalled, comunicaShape, probe, availableEngine,
                 defaultGrapherEngine, defaultComunicaEngine, created>>

\* the engine constructed next
NewEngine(kind) ==
  Engine("default", Len(created) + 1, IF kind = "grapher" THEN "queryOnly" ELSE comunicaShape)

\* Variant: after the import the cache slot is looked at again, and an
\* instance stored meanwhile is used.
ExecImported_ReusesCached(c) ==
  /\ xq[c].pc = "Importing"
  /\ IF xq[c].kindRead = "grapher"
       THEN /\ xq' = [xq EXCEPT ![c].pc = "Creating"]
            /\ UNCHANGED <<defaultComunicaEngine, created>>
       ELSE IF defaultComunicaEngine # NoEngine
         THEN /\ xq' = [xq EXCEPT ![c].pc = "Resuming",
                                  ![c].queryEngine = defaultComunicaEngine]
              /\ UNCHANGED <<defaultComunicaEngine, created>>
         ELSE \/ /\ xq' = [xq EXCEPT ![c].pc = "Rejected",
                                     ![c].error = FailedToCreate("comunica")]
                 /\ UNCHANGED <<defaultComunicaEngine, created>>
              \/ /\ defaultComunicaEngine' = NewEngine("comunica")
                 /\ created' = Append(created, [kind |-> "comunica", by |-> c])
                 /\ xq' = [xq EXCEPT ![c].pc = "Resuming",
                                     ![c].queryEngine = NewEngine("comunica")]
  /\ UNCHANGED <<notExec, grapherInstalled, comunicaShape, probe, availableEngine,
                 defaultGrapherEngine, overlapped>>
\* part_009:141, 157-163  the import in getDefaultEngine settles; the Comunica
\* engine is constructed and stored at once, the grapher one is awaited
ExecImported(c) ==
  /\ xq[c].pc = "Importing"
  /\ IF xq[c].kindRead = "grapher"
       THEN /\ xq' = [xq EXCEPT ![c].pc = "Creating"]
            /\ UNCHANGED <<defaultComunicaEngine, created>>
       ELSE \/ /\ xq' = [xq EXCEPT ![c].pc = "Rejected",
                                   ![c].error = FailedToCreate("comunica")]
               /\ UNCHANGED <<defaultComunicaEngine, created>>
            \/ /\ defaultComunicaEngine' = NewEngine("comunica")
               /\ created' = Append(created, [kind |-> "comunica", by |-> c])
               /\ xq' = [xq EXCEPT ![c].pc = "Resuming",
                                   ![c].queryEngine = NewEngine("comunica")]
  /\ UNCHANGED <<notExec, grapherInstalled, comunicaShape, probe, availableEngine,
                 defaultGrapherEngine, overlapped>>

\* part_009:142-153  createGrapher settles
ExecCreated(c) ==
  /\ xq[c].pc = "Creating"
  /\ \/ /\ xq' = [xq EXCEPT ![c].pc = "Rejected", ![c].error = FailedToCreate("grapher")]
        /\ UNCHANGED <<defaultGrapherEngine, created>>
     \/ /\ defaultGrapherEngine' = NewEngine("grapher")
        /\ created' = Append(created, [kind |-> "grapher", by |-> c])
        /\ xq' = [xq EXCEPT ![c].pc = "Resuming", ![c].queryEngine = NewEngine("grapher")]
  /\ UNCHANGED <<notExec, grapherInstalled, comunicaShape, probe, availableEngine,
                 defaultComunicaEngine, overlapped>>

\* part_009:197-203, 235  execQuery resumes with the default engine
ExecDispatch(c) ==
  /\ xq[c].pc = "Resuming"
  /\ xq' = [xq EXCEPT ![c] = Dispatch(xq[c])]
  /\ UNCHANGED <<notExec, grapherInstalled, comunicaShape, probe, availableEngine,
                 defaultGrapherEngine, defaultComunicaEngine, created, overlapped>>

\* part_009:202, 235, 269-277  the backend call settles: execQuery returns
\* the row sequence, or catches the failure and throws the wrapped error
ExecBackendSettles(c) ==
  /\ xq[c].pc = "AwaitingBackend"
  /\ \/ xq' = [xq EXCEPT ![c].pc = "Returned"]
     \/ \E e \in BackendErrors :
          xq' = [xq EXCEPT ![c].pc = "Rejected", ![c].backendErr = e,
                           ![c].error = WrapExecutionError(e)]
  /\ UNCHANGED <<notExec, grapherInstalled, comunicaShape, probe, availableEngine,
                 defaultGrapherEngine, defaultComunicaEngine, created, overlapped>>

\* part_009:205-232, 240-267  the caller pulls from the returned row
\* sequence: a row, the end, or a failure of the backend's stream
ExecNextRow(c) ==
  /\ xq[c].pc = "Returned"
  /\ \/ /\ xq[c].yielded < MaxYield
        /\ xq' = [xq EXCEPT ![c].yielded = @ + 1]
     \/ xq' = [xq EXCEPT ![c].pc = "Done"]
     \/ /\ xq[c].branch = "comunica"
        /\ \E e \in StreamErrors :
             xq' = [xq EXCEPT ![c].pc = "StreamFailed", ![c].error = e]
  /\ UNCHANGED <<notExec, grapherInstalled, comunicaShape, probe, availableEngine,
                 defaultGrapherEngine, defaultComunicaEngine, created, overlapped>>

ExecNext ==
  \/ ProbeResolves
  \/ \E c \in 1..MaxCalls : ExecQueryStart(c)
  \/ \E c \in 1..MaxCalls : ExecImported(c)
  \/ \E c \in 1..MaxCalls : ExecCreated(c)
  \/ \E c \in 1..MaxCalls : ExecDispatch(c)
  \/ \E c \in 1..MaxCalls : ExecBackendSettles(c)
  \/ \E c \in 1..MaxCalls : ExecNextRow(c)

SpecExec == ExecInit /\ [][ExecNext]_vars

\* ------------------------------------------------- calls on a SparqlBuilder
\* one call on the builder, as the history keeps it: its name and arguments,
\* and for toSparqlAst how it ended, the AST it returned and the prefix
\* mapping that AST showed when it was returned
NoOp ==
  [op |-> "", text |-> "", iri |-> "", n |-> 0, vars |-> <<>>,
   triple |-> Triple(Term("Variable", "", "", ""), Term("Variable", "", "", ""),
                     Term("Variable", "", "", "")),
   ast |-> NoResult.ast, prefixes |-> <<>>]

\* SparqlBuilder.ts:222-240  the terms, in translation order, of a kind
\* termToSparqlJs rejects
UnsupportedTerms(patterns) ==
  LET terms == [k \in 1..(3 * Len(patterns)) |->
                  LET p == patterns[(k + 2) \div 3]
                  IN IF k % 3 = 1 THEN p.subject ELSE IF k % 3 = 2 THEN p.predicate
                     ELSE p.object]
  IN SelectSeq(terms, LAMBDA term :
       term.termType \notin {"NamedNode", "Literal", "Variable", "BlankNode"})

\* a variant that puts the filter nodes first
AstWhere_FiltersFirst(patterns, exprs) ==
  [i \in 1..Len(exprs) |-> Node("filter", {}, <<>>, <<>>, exprs[i])]
    \o [i \in 1..Len(patterns) |-> PatternToNode(patterns[i])]
\* SparqlBuilder.ts:166-196  the WHERE list: the patterns, then the filters
AstWhere(patterns, exprs) ==
  [i \in 1..Len(patterns) |-> PatternToNode(patterns[i])]
    \o [i \in 1..Len(exprs) |-> Node("filter", {}, <<>>, <<>>, exprs[i])]

\* a variant that copies the limit only when it is truthy
ToSparqlAstResult_TruthyLimit ==
  IF UnsupportedTerms(wherePatterns) # <<>>
    THEN [NoResult EXCEPT !.kind = "throw",
            !.err = Err(NoStatus, "Unsupported term type: "
                                    \o UnsupportedTerms(wherePatterns)[1].termType)]
    ELSE [NoResult EXCEPT !.kind = "ast",
            !.ast = [queryType |-> "SELECT", variables |-> variables,
                     where |-> AstWhere(wherePatterns, filters),
                     prefixes |-> [ref |-> "this.prefixes"],
                     limit |-> IF limitValue.n = 0 THEN [defined |-> FALSE, n |-> 0]
                               ELSE limitValue]]
\* SparqlBuilder.ts:156-204  the `prefixes` of the AST is the builder's own
\* prefixes object; an unsupported term makes the translation throw
ToSparqlAstResult ==
  IF UnsupportedTerms(wherePatterns) # <<>>
    THEN [NoResult EXCEPT !.kind = "throw",
            !.err = Err(NoStatus, "Unsupported term type: "
                                    \o UnsupportedTerms(wherePatterns)[1].termType)]
    ELSE [NoResult EXCEPT !.kind = "ast",
            !.ast = [queryType |-> "SELECT", variables |-> variables,
                     where |-> AstWhere(wherePatterns, filters),
                     prefixes |-> [ref |-> "this.prefixes"], limit |-> limitValue]]

\* SparqlBuilder.ts:53-56
Prefix ==
  /\ Len(opLog) < MaxOps
  /\ \E a \in BuilderArgs.prefixes :
       /\ prefixes' = [s \in DOMAIN prefixes \cup {a[1]} |->
                         IF s = a[1] THEN a[2] ELSE prefixes[s]]
       /\ opLog' = Append(opLog, [NoOp EXCEPT !.op = "prefix", !.text = a[1], !.iri = a[2]])
  /\ returned' = [NoResult EXCEPT !.kind = "this"]
  /\ UNCHANGED <<serverVars, astIn, analysis, polCall, rowGen, variables, wherePatterns, filters,
                 limitValue, outputSpec>>

\* SparqlBuilder.ts:64-67
SelectVars ==
  /\ Len(opLog) < MaxOps
  /\ \E vs \in BuilderArgs.varLists :
       /\ variables' = vs
       /\ opLog' = Append(opLog, [NoOp EXCEPT !.op = "selectVars", !.vars = vs])
  /\ returned' = [NoResult EXCEPT !.kind = "this"]
  /\ UNCHANGED <<serverVars, astIn, analysis, polCall, rowGen, prefixes, wherePatterns, filters,
                 limitValue, outputSpec>>

\* SparqlBuilder.ts:77-85
WhereTriple ==
  /\ Len(opLog) < MaxOps
  /\ \E t \in BuilderArgs.triples :
       /\ wherePatterns' = Append(wherePatterns,
            [subject |-> t.subject, predicate |-> t.predicate, object |-> t.object,
             optional |-> FALSE])
       /\ opLog' = Append(opLog, [NoOp EXCEPT !.op = "whereTriple", !.triple = t])
  /\ returned' = [NoResult EXCEPT !.kind = "this"]
  /\ UNCHANGED <<serverVars, astIn, analysis, polCall, rowGen, prefixes, variables, filters,
                 limitValue, outputSpec>>

\* SparqlBuilder.ts:95-104
OptionalTriple ==
  /\ Len(opLog) < MaxOps
  /\ \E t \in BuilderArgs.triples :
       /\ wherePatterns' = Append(wherePatterns,
            [subject |-> t.subject, predicate |-> t.predicate, object |-> t.object,
             optional |-> TRUE])
       /\ opLog' = Append(opLog, [NoOp EXCEPT !.op = "optionalTriple", !.triple = t])
  /\ returned' = [NoResult EXCEPT !.kind = "this"]
  /\ UNCHANGED <<serverVars, astIn, analysis, polCall, rowGen, prefixes, variables, filters,
                 limitValue, outputSpec>>

\* SparqlBuilder.ts:112-115
Filter ==
  /\ Len(opLog) < MaxOps
  /\ \E expr \in BuilderArgs.filters :
       /\ filters' = Append(filters, expr)
       /\ opLog' = Append(opLog, [NoOp EXCEPT !.op = "filter", !.text = expr])
  /\ returned' = [NoResult EXCEPT !.kind = "this"]
  /\ UNCHANGED <<serverVars, astIn, analysis, polCall, rowGen, prefixes, variables, wherePatterns,
                 limitValue, outputSpec>>

\* SparqlBuilder.ts:123-126
Limit ==
  /\ Len(opLog) < MaxOps
  /\ \E n \in BuilderArgs.limits :
       /\ limitValue' = [defined |-> TRUE, n |-> n]
       /\ opLog' = Append(opLog, [NoOp EXCEPT !.op = "limit", !.n = n])
  /\ returned' = [NoResult EXCEPT !.kind = "this"]
  /\ UNCHANGED <<serverVars, astIn, analysis, polCall, rowGen, prefixes, variables, wherePatterns,
                 filters, outputSpec>>

\* a variant that keeps the first OutputSpec attached
SetOutputSpec_WriteOnce ==
  /\ Len(opLog) < MaxOps
  /\ \E spec \in BuilderArgs.specs :
       /\ outputSpec' = IF outputSpec = "undefined" THEN spec ELSE outputSpec
       /\ opLog' = Append(opLog, [NoOp EXCEPT !.op = "setOutputSpec", !.text = spec])
  /\ returned' = [NoResult EXCEPT !.kind = "this"]
  /\ UNCHANGED <<serverVars, astIn, analysis, polCall, rowGen, prefixes, variables, wherePatterns,
                 filters, limitValue>>
\* SparqlBuilder.ts:136-139
SetOutputSpec ==
  /\ Len(opLog) < MaxOps
  /\ \E spec \in BuilderArgs.specs :
       /\ outputSpec' = spec
       /\ opLog' = Append(opLog, [NoOp EXCEPT !.op = "setOutputSpec", !.text = spec])
  /\ returned' = [NoResult EXCEPT !.kind = "this"]
  /\ UNCHANGED <<serverVars, astIn, analysis, polCall, rowGen, prefixes, variables, wherePatterns,
                 filters, limitValue>>

\* SparqlBuilder.ts:147-149
GetOutputSpec ==
  /\ Len(opLog) < MaxOps
  /\ opLog' = Append(opLog, [NoOp EXCEPT !.op = "getOutputSpec"])
  /\ returned' = [NoResult EXCEPT !.kind = "spec", !.spec = outputSpec]
  /\ UNCHANGED <<serverVars, astIn, analysis, polCall, rowGen, prefixes, variables, wherePatterns,
                 filters, limitValue, outputSpec>>

\* SparqlBuilder.ts:156-204
ToSparqlAst ==
  /\ Len(opLog) < MaxOps
  /\ opLog' = Append(opLog, [NoOp EXCEPT !.op = "toSparqlAst",
                                         !.text = ToSparqlAstResult.kind,
                                         !.ast = ToSparqlAstResult.ast,
                                         !.prefixes = prefixes])
  /\ returned' = ToSparqlAstResult
  /\ UNCHANGED <<serverVars, astIn, analysis, polCall, rowGen, prefixes, variables, wherePatterns,
                 filters, limitValue, outputSpec>>

\* new SparqlBuilder()
BuilderInit ==
  /\ HandleIdle
  /\ ShaperIdle
  /\ ExecIdle
  /\ AstIdle
  /\ polCall = NoPolicyCall
  /\ TranscodeIdle
  /\ BuilderIdle

BuilderNext ==
  \/ Prefix
  \/ SelectVars
  \/ WhereTriple
  \/ OptionalTriple
  \/ Filter
  \/ Limit
  \/ SetOutputSpec
  \/ GetOutputSpec
  \/ ToSparqlAst

SpecBuilder == BuilderInit /\ [][BuilderNext]_vars

\* ------------------------------------------------ a call of analyzeBuilder
AstInit ==
  /\ HandleIdle
  /\ ShaperIdle
  /\ ExecIdle
  /\ BuilderIdle
  /\ polCall = NoPolicyCall
  /\ TranscodeIdle
  /\ astIn \in AstInputs
  /\ analysis = NoAnalysis

\* ast.ts:32-43
Analyze ==
  /\ analysis.kind = "none"
  /\ analysis' = AnalyzeBuilder(astIn)
  /\ UNCHANGED <<serverVars, builderVars, polCall, rowGen, astIn>>

SpecAst == AstInit /\ [][Analyze]_vars

\* ------------------------------------- the policies, called and as hooks
\* A policy is called directly, under any context, while no request is
\* handled; or a server created with authorizeOperationByNamespace as its
\* authorizeOperation hook handles a request.
PolicyInit ==
  /\ ShaperIdle
  /\ ExecIdle
  /\ BuilderIdle
  /\ AstIdle
  /\ polCall = NoPolicyCall
  /\ TranscodeIdle
  /\ \/ HandleIdle
     \/ /\ pc = "Start"
        /\ method \in Methods
        /\ body \in Bodies
        /\ hasAuthOp = TRUE
        /\ hasAuthRow = FALSE
        /\ hasLogger \in BOOLEAN
        /\ op = ""
        /\ params = "undefined"
        /\ builderSpec = FALSE
        /\ pulled = 0
        /\ row = NoRow
        /\ results = <<>>
        /\ rowLog = <<>>
        /\ logged = <<>>
        /\ caught = NoCatch
        /\ response = NoResponse
        /\ rejection = NoError
        /\ calls = <<>>

\* part_004:31-44  a direct call
CallAuthorizeOperationByNamespace ==
  /\ pc = "Idle"
  /\ polCall.fn = "none"
  /\ \E ctx \in PolicyInputs.ctxs, iris \in PolicyInputs.usedIris :
       LET out == AuthorizeOperationByNamespace(ctx, iris)
       IN polCall' = [NoPolicyCall EXCEPT !.fn = "authorizeOperationByNamespace",
                        !.ctx = ctx, !.usedIris = iris, !.kind = out.kind, !.err = out.err]
  /\ UNCHANGED <<serverVars, builderVars, astIn, analysis, rowGen>>

\* part_004:46-66  a direct call
CallAuthorizeRowByQuads ==
  /\ pc = "Idle"
  /\ polCall.fn = "none"
  /\ \E ctx \in PolicyInputs.ctxs, quads \in PolicyInputs.quads :
       LET out == AuthorizeRowByQuads(ctx, quads)
       IN polCall' = [NoPolicyCall EXCEPT !.fn = "authorizeRowByQuads",
                        !.ctx = ctx, !.quads = quads, !.kind = out.kind, !.err = out.err]
  /\ UNCHANGED <<serverVars, builderVars, astIn, analysis, rowGen>>

\* part_001:53, 59-61  handle awaits the hook, here authorizeOperationByNamespace,
\* with ctx = { request } and the usedIris of the builder's AST
AuthorizeOperationByPolicy ==
  /\ pc = "AuthorizingOperation"
  /\ hasAuthOp
  /\ calls' = Append(calls, Call("authorizeOperation", 0))
  /\ \E iris \in PolicyInputs.usedIris :
       LET out == AuthorizeOperationByNamespace(NoPolicyCall.ctx, iris)
       IN /\ polCall' = [NoPolicyCall EXCEPT !.fn = "authorizeOperationByNamespace",
                           !.usedIris = iris, !.kind = out.kind, !.err = out.err]
          /\ IF out.kind = "rejected"
               THEN Catch(out.err)
               ELSE /\ pc' = "Executing"
                    /\ UNCHANGED <<logged, caught, response, rejection>>
  /\ UNCHANGED <<shaperVars, execVars, builderVars, astIn, analysis, rowGen, options, op, params,
                 builderSpec, pulled, row, results, rowLog>>

PolicyNext ==
  \/ CallAuthorizeOperationByNamespace
  \/ CallAuthorizeRowByQuads
  \/ CheckMethod
  \/ ParseEnvelope
  \/ ResolveOperation
  \/ ValidateParams
  \/ Build
  \/ AuthorizeOperationByPolicy
  \/ Execute

SpecPolicy == PolicyInit /\ [][PolicyNext]_vars

\* ------------------------- the rows of the result of a query(language, text) call
\* the longest array a result holds
MaxItems == 3

\* The results read.  A value is a string, a number, a boolean, null,
\* undefined, a plain object (with its own enumerable fields, in order) or an
\* array (with its elements); `items` are the entries an array result holds,
\* `singles` the values of a result.data that is no array.
TranscodeInputs ==
  LET val(t, s, n, b) == [t |-> t, s |-> s, n |-> n, b |-> b]
      str(s) == val("string", s, 0, FALSE)
      num(n) == val("number", "", n, FALSE)
      datum(v, fields, elems) ==
        [t |-> v.t, s |-> v.s, n |-> v.n, b |-> v.b, fields |-> fields, elems |-> elems]
      obj(fields) == datum(val("object", "", 0, FALSE), fields, <<>>)
      prim(v) == datum(v, <<>>, <<>>)
      f(key, v) == [key |-> key, value |-> v]
      alice == obj(<<f("name", str("Alice"))>>)
      bob == obj(<<f("name", str("Bob")), f("age", num(30))>>)
      mixed == obj(<<f("age", str("30")), f("ok", val("boolean", "", 0, TRUE)),
                     f("ref", val("object", "", 0, FALSE)),
                     f("none", val("null", "", 0, FALSE)), f("note", str(""))>>)
      empty == obj(<<>>)
      null == prim(val("null", "", 0, FALSE))
      undef == prim(val("undefined", "", 0, FALSE))
  IN [items |-> {alice, bob, mixed, empty, null, undef, prim(num(0)), prim(str("row")),
                 datum(val("array", "", 0, FALSE), <<>>, <<str("x"), num(7)>>)},
      singles |-> {alice, mixed, empty, null, undef, prim(num(5)), prim(str("x"))}]

\* part_009:215, 227  String(value)
JsString(v) ==
  CASE v.t = "string" -> v.s
    [] v.t = "number" -> NatToString(v.n)
    [] v.t = "boolean" -> IF v.b THEN "true" ELSE "false"
    [] v.t = "null" -> "null"
    [] v.t = "undefined" -> "undefined"
    [] OTHER -> "[object Object]"

\* part_009:211, 224  Object.entries(item): the fields of an object, the
\* elements of an array under their indices
ObjectEntries(d) ==
  IF d.t = "array"
    THEN [i \in 1..Len(d.elems) |-> [key |-> NatToString(i - 1), value |-> d.elems[i]]]
    ELSE d.fields

\* a variant that looks at typeof only
IsObjectEntry_TypeofOnly(d) == d.t \in {"object", "array", "null"}
\* part_009:209, 221  item && typeof item === 'object'
IsObjectEntry(d) ==
  LET typeof == IF d.t \in {"object", "array", "null"} THEN "object" ELSE d.t
      truthy == CASE d.t \in {"null", "undefined"} -> FALSE
                  [] d.t = "number" -> d.n # 0
                  [] d.t = "string" -> d.s # ""
                  [] d.t = "boolean" -> d.b
                  [] OTHER -> TRUE
  IN truthy /\ typeof = "object"

\* part_009:210-217, 223-229  the row of an entry: row.set(key, term) for each
\* field, a later value of a key replacing an earlier one
ToBindingRow(d) ==
  LET entries == ObjectEntries(d)
  IN [k \in {entries[i].key : i \in 1..Len(entries)} |->
        LET last == CHOOSE i \in 1..Len(entries) :
                      /\ entries[i].key = k
                      /\ \A j \in (i + 1)..Len(entries) : entries[j].key # k
        IN [termType |-> IF entries[last].value.t = "string" THEN "Literal" ELSE "NamedNode",
            value |-> JsString(entries[last].value)]]

\* part_009:202-205  query(language, text) has resolved with a result and
\* execQuery has returned the generator over it
TranscodeInit ==
  /\ HandleIdle
  /\ ShaperIdle
  /\ ExecIdle
  /\ BuilderIdle
  /\ AstIdle
  /\ polCall = NoPolicyCall
  /\ \E isArray \in BOOLEAN :
       \E data \in IF isArray
                     THEN UNION {[1..n -> TranscodeInputs.items] : n \in 0..MaxItems}
                     ELSE {<<d>> : d \in TranscodeInputs.singles} :
         rowGen = [pc |-> "Suspended", isArray |-> isArray, data |-> data, pos |-> 0,
                   yielded |-> <<>>]

\* part_009:206-220  next() on the generator over an array result: it runs to
\* the next entry that is an object and yields its row, or to the end
NextFromArray ==
  /\ rowGen.pc = "Suspended"
  /\ rowGen.isArray
  /\ LET rest == {i \in (rowGen.pos + 1)..Len(rowGen.data) : IsObjectEntry(rowGen.data[i])}
     IN IF rest = {}
          THEN rowGen' = [rowGen EXCEPT !.pc = "Done", !.pos = Len(rowGen.data)]
          ELSE LET i == CHOOSE i \in rest : \A j \in rest : i <= j
               IN rowGen' = [rowGen EXCEPT !.pos = i,
                                           !.yielded = Append(@, ToBindingRow(rowGen.data[i]))]
  /\ UNCHANGED <<serverVars, builderVars, astIn, analysis, polCall>>

\* part_009:221-232  next() on the generator over a result that is no array:
\* the row of a single object, then the end
NextFromObject ==
  /\ rowGen.pc = "Suspended"
  /\ ~rowGen.isArray
  /\ IF rowGen.pos = 0 /\ IsObjectEntry(rowGen.data[1])
       THEN rowGen' = [rowGen EXCEPT !.pos = 1,
                                     !.yielded = Append(@, ToBindingRow(rowGen.data[1]))]
       ELSE rowGen' = [rowGen EXCEPT !.pc = "Done"]
  /\ UNCHANGED <<serverVars, builderVars, astIn, analysis, polCall>>

TranscodeNext ==
  \/ NextFromArray
  \/ NextFromObject

SpecTranscode == TranscodeInit /\ [][TranscodeNext]_vars

\* =================================================================== claims
Terminal == pc \in {"Responding", "Failed", "Rejected"}

RowStages == {"BuildingQuads", "AuthorizingRow", "ValidatingMapping"}

Skipped(k) == rowLog[k].outcome = "skipped"
Pushed(k) == rowLog[k].outcome = "pushed"

IsPushed(x) == x.outcome = "pushed"

\* the DTOs of the rows whose iteration ended with results.push, in order
PushedDtos ==
  LET sel == SelectSeq(rowLog, IsPushed)
  IN [k \in 1..Len(sel) |-> sel[k].dto]

\* the errors of the skipped rows, in order
IsSkipped(x) == x.outcome = "skipped"
SkippedErrors ==
  LET sel == SelectSeq(rowLog, IsSkipped)
  IN [k \in 1..Len(sel) |-> sel[k].err]

CallsOf(name) == {i \in 1..Len(calls) : calls[i].call = name}

\* C1: the data of a 200 response holds no DTO of a row whose iteration was
\* cut short by a throw of buildQuads, authorizeRow or shapeAndMapOne.
C1_NoFailedRowInData ==
  response.status = 200 =>
    \A k \in 1..Len(rowLog) :
      Skipped(k) => \A i \in 1..Len(response.data) : response.data[i].id # rowLog[k].row

C1_Witness ==
  /\ pc = "Responding"
  /\ response.status = 200
  /\ Len(response.data) = 1
  /\ \E k \in 1..Len(rowLog) : Skipped(k) /\ rowLog[k].step = "authorizeRow"
  /\ \E k \in 1..Len(rowLog) : Skipped(k) /\ rowLog[k].step = "validate"

C3_Original ==
  caught.at = "AuthorizingOperation" =>
    /\ pc = "Failed"
    /\ response.kind = "error"
    /\ \A i \in 1..Len(calls) :
         calls[i].call \notin {"execQuery", "rows.next", "buildQuads", "authorizeRow",
                               "shapeAndMapOne"}

\* C4 (as stated): the rendered status is the numeric hint if the error has
\* one, else 400 for a schema validation error, else 500.
C4_Original ==
  (pc = "Failed" /\ caught # NoCatch) =>
    response.status =
      IF caught.err.status.t = "number" THEN caught.err.status.n
      ELSE IF caught.err.cls = "ZodError" THEN 400 ELSE 500

\* C4 (amended): the rendered status is 400 if the error is a schema
\* validation error, whether or not it carries a hint; otherwise the numeric
\* status hint if the error has one; otherwise 500.
C4_StatusOfRenderedFailure ==
  (pc = "Failed" /\ caught # NoCatch) =>
    response.status =
      IF caught.err.cls = "ZodError" THEN 400
      ELSE IF caught.err.status.t = "number" THEN caught.err.status.n ELSE 500

C4_Witness ==
  /\ pc = "Failed"
  /\ caught.err.cls = "ZodError"
  /\ caught.err.status = NumStatus(403)
  /\ response.status = 400

\* C5 (as stated): a request with a row that lacks the focus-node variable
\* ends with a status-500 error envelope.
C5_Original ==
  (Terminal /\ \E k \in 1..Len(rowLog) : rowLog[k].step = "focusNode") =>
    pc = "Failed" /\ response.status = 500

\* C5 (amended): in handle a row that lacks the focus-node variable is a
\* per-row failure: MissingFocusNode is caught in the row loop, the row is
\* dropped, the loop continues and the request is not aborted by it.
C5_MissingFocusNodeDropsRow ==
  /\ [](\A k \in 1..Len(rowLog) :
          rowLog[k].step = "focusNode" =>
            /\ Skipped(k)
            /\ rowLog[k].err = MissingFocusNode
            /\ \A i \in 1..Len(results) : results[i].id # rowLog[k].row
            /\ caught.err # MissingFocusNode)
  /\ [][(pc = "ValidatingMapping" /\ ~row.focus)
          => pc' = "ShapingRows" /\ results' = results /\ caught' = NoCatch]_vars

C5_Witness ==
  /\ pc = "Responding"
  /\ response.status = 200
  /\ Len(response.data) >= 1
  /\ \E k \in 1..Len(rowLog) : rowLog[k].step = "focusNode"

PostedObject == method = "POST" /\ body.kind = "object"

EnvelopeMismatch ==
  \/ body.kind = "array"
  \/ body.kind = "object" /\ body.operation.t # "string"
  \/ body.kind = "object" /\ body.operation.t = "string" /\ body.operation.s = ""

\* C7: a posted JSON value that does not match the envelope schema yields a
\* ValidationError envelope with status 400, and nothing after the envelope
\* parse runs: no registry lookup, params validation, build, authorization
\* or execution.
C7_EnvelopeMismatchIs400 ==
  (method = "POST" /\ EnvelopeMismatch) =>
    /\ pc \in {"Start", "ReceivingEnvelope", "Failed"}
    /\ \A i \in 1..Len(calls) : calls[i].call = "request.json"
    /\ pc = "Failed" =>
         /\ response.kind = "error"
         /\ response.status = 400
         /\ response.name = "ValidationError"

C7_Witness ==
  /\ pc = "Failed"
  /\ method = "POST"
  /\ body.kind = "object"
  /\ body.operation = OpString("")
  /\ response.status = 400
  /\ response.name = "ValidationError"

\* C8 (as stated): every response has status 200 with a success envelope
\* or, for an error envelope, a status in {400, 403, 404, 405, 500}.
C8_Original ==
  response.kind # "none" =>
    \/ response.kind = "success" /\ response.status = 200
    \/ response.kind = "error" /\ response.status \in {400, 403, 404, 405, 500}

\* C8 (amended): every response has status 200 with a success envelope or,
\* for an error envelope, a status in {400, 404, 405, 500} or the numeric
\* status hint carried by the thrown value (403 for the namespace policies,
\* but any status the thrower chose).
C8_ResponseStatuses ==
  response.kind # "none" =>
    \/ response.kind = "success" /\ response.status = 200
    \/ response.kind = "error" /\ response.status \in {400, 404, 405, 500}
    \/ /\ response.kind = "error"
       /\ caught.err.cls # "ZodError"
       /\ caught.err.status.t = "number"
       /\ response.status = caught.err.status.n

C8_Witness ==
  /\ pc = "Failed"
  /\ response.kind = "error"
  /\ response.status = 418

\* C9: handle ends in Responding or Failed and resolves with a Response; it
\* never rejects to its caller.
C9_Original ==
  /\ pc # "Rejected"
  /\ rejection = NoError
  /\ Terminal => response.kind \in {"success", "error"}

\* the DTOs of the rows shapeAndMapAll pushed, in arrival order of the rows
ShaperPushedDtos ==
  LET sel == SelectSeq(sRowLog, IsPushed)
  IN [k \in 1..Len(sel) |-> sel[k].dto]

ShapeOneSameSpec(r) == RowSteps(r, ShaperCallbackErrors, ShaperValidatorErrors)

\* C11: every validation failure that shapeAndMapOne propagates for a row
\* is swallowed by shapeAndMapAll for the same OutputSpec and row: the row is
\* skipped, the loop goes on and the call does not reject because of it.
C11_Original ==
  \A k \in 1..Len(sRowLog) :
    (/\ sRowLog[k].step = "validate"
     /\ Throw("validate", sRowLog[k].err) \in ShapeOneSameSpec(Row(k, TRUE)))
      => /\ sRowLog[k].outcome = "skipped"
         /\ sThrown # sRowLog[k].err

\* C12 (as stated): a row that lacks the focus-node variable makes
\* shapeAndMapAll reject with MissingFocusNode at that row.
C12_Original ==
  [][(spc = "Processing" /\ ~sRow.focus)
       => (spc' = "Thrown" /\ sThrown' = MissingFocusNode)]_vars

\* C12 (amended): if buildQuads returns for a row that lacks the focus-node
\* variable, shapeAndMapAll rejects with MissingFocusNode at that row: no
\* array is returned, the DTOs collected so far are discarded, and no later
\* row is pulled, built, validated or mapped.  If buildQuads throws for that
\* row, the focus node is never looked up and the row ends as its buildQuads
\* error dictates.
C12_MissingFocusNodeAborts ==
  /\ [](\A k \in 1..Len(sRowLog) :
          sRowLog[k].step = "focusNode" =>
            /\ sRowLog[k].outcome = "rethrown"
            /\ sRowLog[k].err = MissingFocusNode
            /\ spc = "Thrown"
            /\ sThrown = MissingFocusNode
            /\ sReturned = <<>>
            /\ k = Len(sRowLog)
            /\ sPulled = k)
  /\ [][(spc = "Processing" /\ ~sRow.focus)
          => \/ spc' = "Thrown" /\ sThrown' = MissingFocusNode /\ sReturned' = <<>>
             \/ sRowLog'[Len(sRowLog')].step = "buildQuads"]_vars
  /\ [][spc # "Thrown"]_vars

C12_Witness ==
  /\ spc = "Thrown"
  /\ sThrown = MissingFocusNode
  /\ Len(sRowLog) = 2
  /\ sRowLog[1].outcome = "pushed"
  /\ sRowLog[2].step = "focusNode"
  /\ Len(sResults) = 1
  /\ sReturned = <<>>

\* the message a caught backend failure contributes to the wrapped error
OriginalMessage(e) == IF e.cls = "Number" THEN NatToString(e.num) ELSE e.message

\* C13: a failure of the backend call made by execQuery is caught and
\* re-raised as an Error whose message is 'SPARQL query execution failed: '
\* followed by the original message (the string form of a thrown value that
\* is not an Error); the backend is called once and never again, and the
\* failed call yields no row.
C13_BackendFailureWrapped ==
  \A c \in 1..MaxCalls :
    /\ xq[c].backendCalls <= 1
    /\ xq[c].backendErr # NoError =>
         /\ xq[c].pc = "Rejected"
         /\ xq[c].error.cls = "Error"
         /\ xq[c].error.message =
              "SPARQL query execution failed: " \o OriginalMessage(xq[c].backendErr)
         /\ xq[c].backendCalls = 1
         /\ xq[c].yielded = 0
    /\ xq[c].pc = "Rejected" => xq[c].yielded = 0

C13_Witness ==
  /\ xq[1].pc = "Rejected"
  /\ xq[1].backendErr = Err(NoStatus, "connect ECONNREFUSED")
  /\ xq[1].error.message = "SPARQL query execution failed: connect ECONNREFUSED"
  /\ xq[2].pc = "Rejected"
  /\ xq[2].backendErr.cls = "Number"
  /\ xq[2].error.message = "SPARQL query execution failed: 42"

\* C14: a call with an explicit engine handle that exposes only
\* queryBindings runs the query through the fallback branch on that handle,
\* whatever the availability check found.
C14_Original ==
  \A c \in 1..MaxCalls :
    (xq[c].engine = "bindingsOnly" /\ xq[c].branch # "none") =>
      /\ xq[c].branch = "comunica"
      /\ xq[c].queryEngine.origin = "handle"
      /\ xq[c].backendCalls = 1

\* C15: when execQuery calls do not overlap, at most one default engine of a
\* backend kind is ever constructed, by a call without an engine handle, and
\* that call is the first call without a handle that needed the kind and
\* whose construction did not fail; every later call without a handle that
\* needs the kind runs on that same instance; a cache slot, once filled, is
\* never replaced or cleared; a call with an engine handle constructs none.
C15_DefaultEngineCachedOnce ==
  /\ [](~overlapped =>
          /\ \A i, j \in 1..Len(created) : created[i].kind = created[j].kind => i = j
          /\ \A i \in 1..Len(created) :
               /\ xq[created[i].by].engine = "none"
               /\ xq[created[i].by].kindRead = created[i].kind
               /\ \A d \in 1..MaxCalls :
                    (/\ d < created[i].by
                     /\ xq[d].engine = "none"
                     /\ xq[d].kindRead = created[i].kind)
                      => /\ xq[d].pc = "Rejected"
                         /\ xq[d].queryEngine = NoEngine
          /\ \A c, d \in 1..MaxCalls :
               (/\ xq[c].engine = "none" /\ xq[d].engine = "none"
                /\ xq[c].kindRead = xq[d].kindRead
                /\ xq[c].queryEngine # NoEngine /\ xq[d].queryEngine # NoEngine)
                 => xq[c].queryEngine = xq[d].queryEngine
          /\ \A c \in 1..MaxCalls :
               (xq[c].engine = "none" /\ xq[c].queryEngine # NoEngine) =>
                 /\ xq[c].queryEngine.origin = "default"
                 /\ xq[c].queryEngine =
                      IF xq[c].kindRead = "grapher" THEN defaultGrapherEngine
                      ELSE defaultComunicaEngine
          /\ \A c \in 1..MaxCalls :
               xq[c].engine \notin {"none"} => xq[c].queryEngine.origin # "default")
  /\ [][~overlapped' =>
          /\ defaultGrapherEngine # NoEngine => defaultGrapherEngine' = defaultGrapherEngine
          /\ defaultComunicaEngine # NoEngine =>
               defaultComunicaEngine' = defaultComunicaEngine]_vars

C15_Witness ==
  /\ ~overlapped
  /\ xq[1].engine = "none"
  /\ xq[2].engine = "none"
  /\ xq[1].kindRead = "comunica"
  /\ xq[2].kindRead = "comunica"
  /\ Len(created) = 1
  /\ created[1].by = 1
  /\ xq[1].pc = "Done"
  /\ xq[2].pc = "Returned"
  /\ xq[2].queryEngine = xq[1].queryEngine
  /\ xq[2].queryEngine.id = 1

RowCalls == {"rows.next", "buildQuads", "authorizeRow", "shapeAndMapOne"}

\* the builder function returned a builder that carries no OutputSpec
BuiltWithoutSpec ==
  /\ CallsOf("build") # {}
  /\ pc # "Building"
  /\ caught.at # "Building"
  /\ ~builderSpec

\* C16: a request whose builder has no OutputSpec is answered, once it
\* reaches the presence check, with a status-500 error envelope; the check
\* comes only after execQuery was called and returned, no row is pulled from
\* the row sequence, and authorizeRow, buildQuads and shapeAndMapOne are
\* never invoked.
C16_MissingOutputSpecIs500 ==
  /\ BuiltWithoutSpec =>
       /\ \A i \in 1..Len(calls) : calls[i].call \notin RowCalls
       /\ pulled = 0
       /\ response.status # 200
       /\ (Terminal /\ caught.at \notin {"AuthorizingOperation", "Executing"}) =>
            /\ pc = "Failed"
            /\ caught.at = "CheckingOutputSpec"
            /\ response.kind = "error"
            /\ response.status = 500
            /\ response.name = "ServerError"
            /\ response.message =
                 "OutputSpec must be set on SparqlBuilder to serve typed endpoint"
  /\ caught.at = "CheckingOutputSpec" =>
       /\ BuiltWithoutSpec
       /\ calls[Len(calls)].call = "execQuery"

C16_Witness ==
  /\ pc = "Failed"
  /\ hasAuthRow
  /\ hasAuthOp
  /\ caught.at = "CheckingOutputSpec"
  /\ response.status = 500
  /\ CallsOf("execQuery") # {}

\* C17: once the row loop has ended, the collected DTOs are validated as a
\* whole: if some DTO fails the result schema the response is a status-400
\* ValidationError envelope without data, and the offending DTO is still in
\* the collected sequence (it was not dropped like a failing row); a 200
\* response carries only DTOs that satisfy the schema.
C17_ResultMismatchIs400 ==
  /\ (CallsOf("resultItem.parse") # {} /\ \E i \in 1..Len(PushedDtos) : ~PushedDtos[i].typed) =>
       /\ pc = "Failed"
       /\ caught.at = "ValidatingResult"
       /\ caught.err.cls = "ZodError"
       /\ response.kind = "error"
       /\ response.status = 400
       /\ response.name = "ValidationError"
       /\ response.data = <<>>
       /\ results = PushedDtos
  /\ response.status = 200 =>
       /\ response.data = results
       /\ \A i \in 1..Len(response.data) : response.data[i].typed
  /\ CallsOf("resultItem.parse") # {} =>
       /\ pc \notin RowStages \cup {"ShapingRows"}
       /\ Len(rowLog) = pulled

C17_Witness ==
  /\ pc = "Failed"
  /\ caught.at = "ValidatingResult"
  /\ Len(results) = 2
  /\ results[1].typed
  /\ ~results[2].typed
  /\ response.status = 400
  /\ response.name = "ValidationError"

\* the posted params do not satisfy the params schema of the posted operation
\* ("op" accepts an empty object, "opReq" does not)
ParamsMismatch ==
  /\ PostedObject
  /\ \/ body.operation = OpString("op") /\ body.params = "bad"
     \/ body.operation = OpString("opReq") /\ body.params \in {"undefined", "empty", "bad"}

\* C18: params are validated before the builder function runs, absent params
\* being replaced by an empty object; on mismatch the response is a
\* status-400 ValidationError envelope and the builder function, both
\* authorization hooks and execQuery are never invoked.
C18_ParamsMismatchIs400 ==
  /\ ParamsMismatch =>
       /\ pc \in {"Start", "ReceivingEnvelope", "ResolvingOperation", "ValidatingParams",
                  "Failed"}
       /\ \A i \in 1..Len(calls) :
            calls[i].call \in {"request.json", "registry", "params.parse"}
       /\ pc = "Failed" =>
            /\ caught.at = "ValidatingParams"
            /\ response.kind = "error"
            /\ response.status = 400
            /\ response.name = "ValidationError"
  /\ \A i \in CallsOf("build") : \E j \in CallsOf("params.parse") : j < i
  /\ (PostedObject /\ body.operation = OpString("op") /\ body.params = "undefined"
        /\ CallsOf("params.parse") # {}) =>
       /\ caught.at # "ValidatingParams"
       /\ params = "empty"

C18_Witness ==
  /\ pc = "Failed"
  /\ body.operation = OpString("opReq")
  /\ body.params = "undefined"
  /\ hasAuthOp
  /\ response.status = 400
  /\ response.name = "ValidationError"

\* C19: in an error envelope rendered by the catch block, error.name is
\* "ValidationError" exactly when the caught value is a schema validation
\* error and "ServerError" otherwise (a rejection with status 403 and a
\* missing OutputSpec included), and error.message is the caught Error's
\* message, or the string form of a caught value that is not an Error.
C19_NameAndMessage ==
  (pc = "Failed" /\ caught # NoCatch) =>
    /\ response.kind = "error"
    /\ response.name = "ValidationError" <=> caught.err.cls = "ZodError"
    /\ response.name = "ServerError" <=> caught.err.cls # "ZodError"
    /\ caught.err.cls \in {"Error", "ZodError"} => response.message = caught.err.message
    /\ caught.err.cls = "Number" => response.message = NatToString(caught.err.num)
    /\ (caught.err.status = NumStatus(403) /\ caught.err.cls = "Error") =>
         response.name = "ServerError" /\ response.status = 403
    /\ caught.at = "CheckingOutputSpec" => response.name = "ServerError"

C19_Witness ==
  /\ pc = "Failed"
  /\ caught.err.cls = "Number"
  /\ caught.err.num = 123
  /\ response.name = "ServerError"
  /\ response.message = "123"
  /\ response.status = 500

\* C20: a well-formed POST envelope whose operation name is not a key of the
\* registry yields status 404 with name OperationNotFound and meta.operation
\* equal to the requested name, and neither the builder function, a hook nor
\* execQuery is invoked.
C20_Original ==
  (/\ PostedObject
   /\ body.operation.t = "string"
   /\ Len(body.operation.s) >= 1
   /\ body.operation.s \notin {"op", "opReq"}) =>
    /\ \A i \in 1..Len(calls) :
         calls[i].call \notin {"build", "authorizeOperation", "authorizeRow", "execQuery"}
    /\ Terminal =>
         /\ response.status = 404
         /\ response.name = "OperationNotFound"
         /\ response.operation = body.operation.s

\* C21: a request whose method is not POST is answered with status 405 and
\* error name MethodNotAllowed, and nothing else happens: the body is not
\* read, the registry is not consulted, no hook is called, no query runs.
C21_NonPostIs405 ==
  method # "POST" =>
    /\ pc \in {"Start", "Failed"}
    /\ calls = <<>>
    /\ caught = NoCatch
    /\ logged = <<>>
    /\ pc = "Failed" =>
         /\ response.kind = "error"
         /\ response.status = 405
         /\ response.name = "MethodNotAllowed"

C21_Witness ==
  /\ method = "GET"
  /\ body.kind = "object"
  /\ body.operation = OpString("op")
  /\ hasAuthOp
  /\ pc = "Failed"
  /\ response.status = 405
  /\ response.name = "MethodNotAllowed"

\* shaper.ts:47, 100  the two OutputSpecMissing messages
OutputSpecMissingMessages ==
  { "OutputSpec must be set on SparqlBuilder before calling shapeAndMapAll",
    "OutputSpec must be set on SparqlBuilder before calling shapeAndMapOne" }

\* C22: called with a builder that has no OutputSpec, shapeAndMapAll and
\* shapeAndMapOne reject at once with OutputSpecMissing: no row is taken from
\* the sequence, and buildQuads, the validator and mapToObject are not run
\* for any row.
C22_NoSpecRejectsAtOnce ==
  (~sHasSpec /\ spc # "Idle") =>
    /\ spc \in {"Start", "Thrown", "OneThrown"}
    /\ sPulled = 0
    /\ sRowLog = <<>>
    /\ sOneLog = <<>>
    /\ sResults = <<>>
    /\ sReturned = <<>>
    /\ sWarned = <<>>
    /\ spc = "Thrown" =>
         /\ sThrown.cls = "Error"
         /\ sThrown.message =
              "OutputSpec must be set on SparqlBuilder before calling shapeAndMapAll"
    /\ spc = "OneThrown" =>
         /\ sThrown.cls = "Error"
         /\ sThrown.message =
              "OutputSpec must be set on SparqlBuilder before calling shapeAndMapOne"

C22_Witness ==
  /\ ~sHasSpec
  /\ spc = "OneThrown"
  /\ sRow = Row(1, TRUE)
  /\ sThrown.message \in OutputSpecMissingMessages
  /\ sOneLog = <<>>

\* ------------------------------------------------------------ the builder
\* the calls of the history with one of the given names, in order
OpsNamed(names) == SelectSeq(opLog, LAMBDA o : o.op \in names)

LastOp == opLog[Len(opLog)]

SetCalls == OpsNamed({"setOutputSpec"})

\* C23 as stated: once setOutputSpec(s) has been called, getOutputSpec()
\* returns s after any later sequence of builder calls.
C23_Original ==
  (opLog # <<>> /\ LastOp.op = "getOutputSpec")
    => \A i \in 1..Len(opLog) :
         opLog[i].op = "setOutputSpec" => returned.spec = opLog[i].text

\* C23 (amended): a builder carries at most one OutputSpec at a time, and
\* getOutputSpec() returns the argument of the most recent setOutputSpec call
\* (undefined when there was none), whatever other builder calls were made in
\* between; a later setOutputSpec replaces the OutputSpec attached before.
C23_LastSetOutputSpecWins ==
  /\ outputSpec \in BuilderArgs.specs \cup {"undefined"}
  /\ (opLog # <<>> /\ LastOp.op = "getOutputSpec")
       => /\ returned.kind = "spec"
          /\ returned.spec = IF SetCalls = <<>> THEN "undefined"
                             ELSE SetCalls[Len(SetCalls)].text

\* two different OutputSpecs were attached, then a triple was added, then
\* getOutputSpec() returned the second one
C23_Witness ==
  /\ Len(opLog) = 4
  /\ opLog[1].op = "setOutputSpec"
  /\ opLog[2].op = "setOutputSpec"
  /\ opLog[1].text # opLog[2].text
  /\ opLog[3].op = "whereTriple"
  /\ opLog[4].op = "getOutputSpec"
  /\ returned.spec = opLog[2].text

TripleCalls == OpsNamed({"whereTriple", "optionalTriple"})
FilterCalls == OpsNamed({"filter"})

\* the node is the translation of the term: same kind, same value
NodeOf(node, term) == node.termType = term.termType /\ node.value = term.value

\* the node is a basic pattern holding exactly the triple of the call
BgpOf(node, triple) ==
  /\ node.type = "bgp"
  /\ Len(node.triples) = 1
  /\ NodeOf(node.triples[1].subject, triple.subject)
  /\ NodeOf(node.triples[1].predicate, triple.predicate)
  /\ NodeOf(node.triples[1].object, triple.object)

\* C24: the WHERE list of a returned AST holds one node per whereTriple or
\* optionalTriple call, in the order of the calls (a basic pattern with that
\* one triple, or an optional node wrapping one such basic pattern), followed
\* by one filter node per filter call in the order of the calls.
C24_WhereInInsertionOrder ==
  (opLog # <<>> /\ LastOp.op = "toSparqlAst" /\ returned.kind = "ast")
    => LET where == returned.ast.where
           nt == Len(TripleCalls)
       IN /\ Len(where) = nt + Len(FilterCalls)
          /\ \A i \in 1..nt :
               IF TripleCalls[i].op = "whereTriple"
                 THEN BgpOf(where[i], TripleCalls[i].triple)
                 ELSE /\ where[i].type = "optional"
                      /\ Len(where[i].patterns) = 1
                      /\ BgpOf(where[i].patterns[1], TripleCalls[i].triple)
          /\ \A j \in 1..Len(FilterCalls) :
               /\ where[nt + j].type = "filter"
               /\ where[nt + j].operator = FilterCalls[j].text

\* filter was called first, then optionalTriple, then whereTriple; the AST
\* lists the optional node, the basic pattern, then the filter
C24_Witness ==
  /\ Len(opLog) = 4
  /\ opLog[1].op = "filter"
  /\ opLog[2].op = "optionalTriple"
  /\ opLog[3].op = "whereTriple"
  /\ opLog[4].op = "toSparqlAst"
  /\ returned.kind = "ast"
  /\ returned.ast.where[1].type = "optional"
  /\ returned.ast.where[2].type = "bgp"
  /\ returned.ast.where[3].type = "filter"

\* ------------------------------------------------------- the AST analyser
Elems(seq) == { seq[i] : i \in 1..Len(seq) }

\* the pattern list analyzeBuilder starts from
WhereList == IF astIn.whereType = "array" THEN astIn.where ELSE <<>>

\* the nodes found k pattern lists below `where`
RECURSIVE NodesAtLevel(_)
NodesAtLevel(k) ==
  IF k = 0 THEN Elems(WhereList) \ {NullNode}
  ELSE UNION { Elems(n.patterns) :
                 n \in { m \in NodesAtLevel(k - 1) :
                           /\ ~(m.type = "bgp" /\ "triples" \in m.arrays)
                           /\ "patterns" \in m.arrays } } \ {NullNode}

\* the basic patterns reachable from `where` through nested pattern lists
ReachableBgps ==
  { n \in UNION { NodesAtLevel(k) : k \in 0..(MaxDepth + 1) } :
      n.type = "bgp" /\ "triples" \in n.arrays }

ReachableTriples == UNION { Elems(n.triples) : n \in ReachableBgps }

\* the values of the named-identifier terms in subject, predicate or object
\* position of the reachable basic patterns
ReachableIris ==
  { term.value : term \in { x \in UNION { {t.subject, t.predicate, t.object} :
                                            t \in ReachableTriples } :
                              x.termType = "NamedNode" } }

\* C25: usedIris holds, without duplicates, exactly the values of the
\* named-identifier terms in subject, predicate or object position of the basic
\* patterns reachable from `where` through optional nodes or any other node with
\* a nested pattern list, however deep; nodes without a nested list and
\* variable, literal, blank or missing terms add nothing.
C25_UsedIrisAreTheReachableIris ==
  analysis.kind = "returned"
    => /\ \A i, j \in 1..Len(analysis.usedIris) :
            analysis.usedIris[i] = analysis.usedIris[j] => i = j
       /\ Elems(analysis.usedIris) = ReachableIris

\* a basic pattern two pattern lists deep (an optional node inside a group
\* node) followed by a basic pattern that repeats one of its identifiers
C25_Witness ==
  /\ analysis.kind = "returned"
  /\ astIn.whereType = "array"
  /\ Len(astIn.where) = 2
  /\ astIn.where[1].type = "group"
  /\ astIn.where[1].patterns[1].type = "optional"
  /\ astIn.where[1].patterns[1].patterns[1].type = "bgp"
  /\ Len(astIn.where[1].patterns[1].patterns[1].triples) = 2
  /\ astIn.where[2].type = "bgp"
  /\ analysis.usedIris = <<"http://s", "http://p", "http://p2", "http://o">>

\* C26: analyzeBuilder does not throw when `where` is absent or not an array,
\* when `prefixes` is absent, or when a pattern list holds null entries; without
\* an array `where` usedIris is empty and without `prefixes` the mapping is {}.
C26_AnalyzeDefaults ==
  (analysis.kind # "none" /\ NullTriple \notin ReachableTriples)
    => /\ analysis.kind = "returned"
       /\ astIn.whereType # "array" => analysis.usedIris = <<>>
       /\ astIn.prefixesType # "object" => DOMAIN analysis.prefixes = {}
       /\ astIn.prefixesType = "object" => analysis.prefixes = astIn.prefixes

\* {where: undefined, prefixes: undefined} was analysed
C26_Witness ==
  /\ astIn.whereType = "undefined"
  /\ astIn.prefixesType = "undefined"
  /\ analysis.kind = "returned"
  /\ analysis.usedIris = <<>>
  /\ DOMAIN analysis.prefixes = {}

\* ------------------------------------------------------------ the policies
\* the base namespace a context stands for
BaseOf(ctx) ==
  CASE ctx = [t |-> "string", s |-> "acme"] -> "https://data.example.com/acme/"
    [] ctx = [t |-> "string", s |-> "a/b"] -> "https://data.example.com/a%2Fb/"
    [] OTHER -> "http://example.org/"

\* the identifier starts with a namespace allowed under the context
Permitted(ctx, iri) ==
  \E ns \in { BaseOf(ctx), "http://www.w3.org/1999/02/22-rdf-syntax-ns#",
              "http://www.w3.org/2000/01/rdf-schema#",
              "http://www.w3.org/2001/XMLSchema#" } : StartsWith(iri, ns)

IsForbidden(e) == e.cls = "Error" /\ e.status = NumStatus(403)

\* C27: authorizeOperationByNamespace accepts exactly when every identifier of
\* usedIris starts with a namespace allowed under the context; otherwise it
\* throws an Error with status 403 naming an unmatched identifier, and a
\* request handled with it as the hook ends with a 403 response without the
\* query having been executed.
C27_NamespacePolicy ==
  polCall.fn = "authorizeOperationByNamespace"
    => /\ polCall.kind \in {"resolved", "rejected"}
       /\ polCall.kind = "resolved"
            <=> \A i \in 1..Len(polCall.usedIris) : Permitted(polCall.ctx, polCall.usedIris[i])
       /\ polCall.kind = "rejected"
            => /\ IsForbidden(polCall.err)
               /\ \E i \in 1..Len(polCall.usedIris) :
                    /\ ~Permitted(polCall.ctx, polCall.usedIris[i])
                    /\ polCall.err.message
                         = "Forbidden namespace in query: " \o polCall.usedIris[i]
       /\ (pc # "Idle" /\ polCall.kind = "rejected")
            => /\ pc = "Failed"
               /\ response.status = 403
               /\ response.message = polCall.err.message
               /\ \A k \in 1..Len(calls) : calls[k].call # "execQuery"
       /\ (pc # "Idle" /\ polCall.kind = "resolved")
            => pc \in {"Executing", "CheckingOutputSpec", "Failed"}

\* a request whose query uses an allowed identifier followed by one outside
\* every allowed namespace was answered 403
C27_Witness ==
  /\ pc = "Failed"
  /\ polCall.fn = "authorizeOperationByNamespace"
  /\ polCall.kind = "rejected"
  /\ Len(polCall.usedIris) = 2
  /\ Permitted(polCall.ctx, polCall.usedIris[1])
  /\ ~Permitted(polCall.ctx, polCall.usedIris[2])
  /\ response.status = 403

\* the quad has a named-node predicate or a named-node graph outside every
\* allowed namespace
Offends(ctx, q) ==
  \/ q.predicate.termType = "NamedNode" /\ ~Permitted(ctx, q.predicate.value)
  \/ q.graph.termType = "NamedNode" /\ ~Permitted(ctx, q.graph.value)

\* C28: authorizeRowByQuads throws an Error with status 403 exactly when some
\* quad of the row has a named-node predicate or a named-node graph that starts
\* with no allowed namespace, wherever the quad stands in the row; subjects and
\* objects play no part, and a row with no quads (or without quads) is accepted.
C28_QuadPolicy ==
  polCall.fn = "authorizeRowByQuads"
    => /\ polCall.kind \in {"resolved", "rejected"}
       /\ polCall.kind = "rejected"
            <=> \E i \in 1..Len(polCall.quads.list) :
                  Offends(polCall.ctx, polCall.quads.list[i])
       /\ polCall.kind = "rejected" => IsForbidden(polCall.err)
       /\ polCall.quads.list = <<>> => polCall.kind = "resolved"

\* a row whose first quad has a subject and an object outside the allowed
\* namespaces but passes, and whose second quad is rejected for its graph
C28_Witness ==
  /\ polCall.fn = "authorizeRowByQuads"
  /\ polCall.ctx = [t |-> "undefined", s |-> ""]
  /\ Len(polCall.quads.list) = 2
  /\ polCall.quads.list[1].subject.value = "http://evil.example/s"
  /\ ~Offends(polCall.ctx, polCall.quads.list[1])
  /\ Permitted(polCall.ctx, polCall.quads.list[2].predicate.value)
  /\ polCall.quads.list[2].graph.termType = "NamedNode"
  /\ polCall.kind = "rejected"
  /\ polCall.err.message = "Forbidden graph: http://evil.example/g"

\* ------------------------------------------------------- the stages of handle
ErrorTerminals == {"Failed", "Rejected"}

\* the order of the stages, and the ends a stage outside the row loop may take
StageSteps ==
  { <<"Start", "ReceivingEnvelope">>, <<"ReceivingEnvelope", "ResolvingOperation">>,
    <<"ResolvingOperation", "ValidatingParams">>, <<"ValidatingParams", "Building">>,
    <<"Building", "AuthorizingOperation">>, <<"AuthorizingOperation", "Executing">>,
    <<"Executing", "CheckingOutputSpec">>, <<"CheckingOutputSpec", "ShapingRows">>,
    <<"ShapingRows", "BuildingQuads">>, <<"BuildingQuads", "AuthorizingRow">>,
    <<"AuthorizingRow", "ValidatingMapping">>, <<"ShapingRows", "ValidatingResult">>,
    <<"ValidatingResult", "Responding">> }
    \cup { <<stage, "ShapingRows">> : stage \in RowStages }
    \cup { <<stage, end>> :
             stage \in {"Start", "ReceivingEnvelope", "ResolvingOperation",
                        "ValidatingParams", "Building", "AuthorizingOperation",
                        "Executing", "CheckingOutputSpec", "ShapingRows",
                        "ValidatingResult"},
             end \in ErrorTerminals }

\* the collaborator a stage calls, if it calls one
StageCall ==
  CASE pc = "ReceivingEnvelope" -> <<Call("request.json", 0)>>
    [] pc = "ResolvingOperation" -> <<Call("registry", 0)>>
    [] pc = "ValidatingParams" -> <<Call("params.parse", 0)>>
    [] pc = "Building" -> <<Call("build", 0)>>
    [] pc = "AuthorizingOperation" /\ hasAuthOp -> <<Call("authorizeOperation", 0)>>
    [] pc = "Executing" -> <<Call("execQuery", 0)>>
    [] pc = "ShapingRows" -> <<Call("rows.next", pulled + 1)>>
    [] pc = "BuildingQuads" -> <<Call("buildQuads", row.id)>>
    [] pc = "AuthorizingRow" /\ hasAuthRow -> <<Call("authorizeRow", row.id)>>
    [] pc = "ValidatingMapping" -> <<Call("shapeAndMapOne", row.id)>>
    [] pc = "ValidatingResult" -> <<Call("resultItem.parse", 0)>>
    [] OTHER -> <<>>

\* the positions in a history of calls at which the call was made
Positions(log, c) == { k \in 1..Len(log) : log[k] = c }

C30_RowsOneAtATime ==
  [][ /\ pulled' # pulled
        => /\ pulled' = pulled + 1
           /\ Len(rowLog) = pulled
           /\ \A i \in 1..pulled : rowLog[i].row = i
           /\ row'.id = pulled'
      /\ pc \in RowStages => (row.id = pulled /\ Len(rowLog) = pulled - 1)
      /\ pc' \in RowStages => (row'.id = pulled' /\ Len(rowLog') = pulled' - 1)
      /\ calls' # calls /\ calls'[Len(calls')].call \in {"buildQuads", "authorizeRow", "shapeAndMapOne"}
        => /\ calls'[Len(calls')].row = pulled
           /\ Len(rowLog) = pulled - 1
      /\ \A i, j \in 1..Len(results') : i < j => results'[i].id < results'[j].id
      /\ pc' = "Responding" => response'.data = results'
    ]_vars

\* the first and the third row were pushed, the second skipped, and the
\* response lists the DTOs of rows 1 and 3 in that order
C30_Witness ==
  /\ pc = "Responding"
  /\ Len(rowLog) = 3
  /\ rowLog[1].outcome = "pushed"
  /\ rowLog[2].outcome = "skipped"
  /\ rowLog[3].outcome = "pushed"
  /\ Len(response.data) = 2
  /\ response.data[1].id = 1
  /\ response.data[2].id = 3

\* ------------------------------------------- the engine adapter, continued
\* C31: creation of a default engine is not guarded against concurrent first
\* use.  A call without an engine handle that found the cache slot of its
\* backend kind empty constructs an instance of its own when its construction
\* succeeds, whatever another call has stored in the slot meanwhile: the
\* instance is a new one, it replaces what the slot holds, and the call runs on
\* it.  So two overlapping first calls each construct an engine of the same
\* kind and run on different instances.
C31_CreationUnguarded ==
  [][\A c \in 1..MaxCalls :
       (xq[c].pc \in {"Importing", "Creating"} /\ xq'[c].pc = "Resuming")
         => /\ Len(created') = Len(created) + 1
            /\ created'[Len(created')] = [kind |-> xq[c].kindRead, by |-> c]
            /\ xq'[c].queryEngine.origin = "default"
            /\ xq'[c].queryEngine.id = Len(created')
            /\ \A d \in 1..MaxCalls : xq[d].queryEngine # xq'[c].queryEngine
            /\ xq'[c].queryEngine = IF xq[c].kindRead = "grapher"
                                      THEN defaultGrapherEngine'
                                      ELSE defaultComunicaEngine']_vars

\* two overlapping calls without a handle each constructed a Comunica engine
\* and each called the backend on its own instance
C31_Witness ==
  /\ overlapped
  /\ xq[1].engine = "none"
  /\ xq[2].engine = "none"
  /\ Len(created) = 2
  /\ created[1].kind = "comunica"
  /\ created[2].kind = "comunica"
  /\ created[1].by # created[2].by
  /\ xq[1].backendCalls = 1
  /\ xq[2].backendCalls = 1
  /\ xq[1].queryEngine # xq[2].queryEngine

\* C32 as stated: the availability of the primary backend is probed once and
\* the result is cached: once the probe has settled no call runs it again or
\* changes what it found, and every execQuery call of the process observes the
\* same probe result (the backend kind two calls read does not differ).
C32_Original ==
  /\ [][probe = "done" => (probe' = "done" /\ availableEngine' = availableEngine)]_vars
  /\ [](\A c, d \in 1..MaxCalls :
          (xq[c].kindRead # "none" /\ xq[d].kindRead # "none")
            => xq[c].kindRead = xq[d].kindRead)

\* C33 as stated: in one execQuery call without an engine handle the backend
\* kind read to choose the default engine is the backend kind assumed when
\* the query is dispatched.
C33_Original ==
  \A c \in 1..MaxCalls :
    (xq[c].engine = "none" /\ xq[c].branch # "none") => xq[c].branch = xq[c].kindRead

\* the availability check settled while a call was importing Comunica: the
\* call dispatched on the primary branch to the Comunica engine it created
ProbeSettledInsideCall ==
  /\ comunicaShape = "bindingsOnly"
  /\ xq[1].engine = "none"
  /\ xq[1].kindRead = "comunica"
  /\ xq[1].queryEngine = defaultComunicaEngine
  /\ xq[1].branch = "grapher"
  /\ xq[1].pc = "Rejected"
  /\ xq[1].error.message = "SPARQL query execution failed: queryEngine.query is not a function"

\* the first call read 'comunica' before the check settled, the second
\* 'grapher' after it
ProbeSettledBetweenCalls ==
  /\ xq[1].kindRead = "comunica"
  /\ xq[2].kindRead = "grapher"
  /\ Len(created) = 2

\* C34 as stated: a failure the backend raises while rows are streamed is
\* not wrapped as QueryExecutionFailed and leaves the row sequence as it was
\* raised; in handle it ends the request with an error envelope, and the DTOs
\* collected from earlier rows are not returned.
C34_Original ==
  /\ \A c \in 1..MaxCalls :
       xq[c].pc = "StreamFailed"
         => /\ xq[c].backendErr = NoError
            /\ xq[c].error.cls = "Error"
            /\ ~StartsWith(xq[c].error.message, "SPARQL query execution failed: ")
  /\ caught.at = "ShapingRows"
       => /\ ~StartsWith(caught.err.message, "SPARQL query execution failed: ")
          /\ pc = "Failed"
          /\ response.kind = "error"
          /\ response.message = caught.err.message
          /\ response.data = <<>>

\* ---------------------------------------------------- shapeAndMapAll, continued
\* the messages, among those the callbacks, the focus check and the validator
\* raise, that mention the focus-node option
FocusNodeVarMessages ==
  { "focusNodeVar 'id' not found in binding row",
    "bad focusNodeVar mapping",
    "focusNodeVar is not a sh:NodeShape target" }

WithDatatype(term, dt) ==
  IF term.termType = "Literal"
    THEN [term EXCEPT !.datatype = IF dt = "" THEN [termType |-> "undefined", value |-> ""]
                                   ELSE [termType |-> "NamedNode", value |-> dt]]
    ELSE term

\* the node with the datatype of every literal and the expression of every
\* filter replaced
RECURSIVE VaryNode(_, _, _)
VaryNode(n, dt, expr) ==
  [n EXCEPT
     !.operator = IF n.type = "filter" THEN expr ELSE @,
     !.triples = [i \in 1..Len(@) |->
                    Triple(WithDatatype(@[i].subject, dt), WithDatatype(@[i].predicate, dt),
                           WithDatatype(@[i].object, dt))],
     !.patterns = [i \in 1..Len(@) |-> VaryNode(@[i], dt, expr)]]

\* a query that differs from the analysed one only in its literals' datatype
\* identifiers and its filter expressions
Varied(dt, expr) ==
  [astIn EXCEPT !.where = [i \in 1..Len(@) |-> VaryNode(@[i], dt, expr)]]

\* C36: a query that differs from the analysed one only in the datatype
\* identifiers of its literals or in its filter expressions (a datatype
\* removed or replaced, a filter that names another identifier) is analysed to
\* the same usedIris; no datatype identifier is among them.
C36_UsedIrisIgnoreDatatypesAndFilters ==
  analysis.kind = "returned"
    => /\ \A dt \in {"", "http://dt", "http://evil.example/dt"},
             expr \in {"?x > 1", "?x = <http://evil.example/f>"} :
            /\ AnalyzeBuilder(Varied(dt, expr)).kind = "returned"
            /\ AnalyzeBuilder(Varied(dt, expr)).usedIris = analysis.usedIris
       /\ \A i \in 1..Len(analysis.usedIris) : analysis.usedIris[i] # "http://dt"

\* a query with a typed literal and a filter was analysed, and changing both
\* gives another query
C36_Witness ==
  /\ analysis.kind = "returned"
  /\ Len(astIn.where) = 2
  /\ astIn.where[1].type = "bgp"
  /\ Len(astIn.where[1].triples) = 2
  /\ astIn.where[1].triples[1].object.termType = "Literal"
  /\ astIn.where[1].triples[1].object.datatype.value = "http://dt"
  /\ astIn.where[2].type = "filter"
  /\ Varied("http://evil.example/dt", "?x = <http://evil.example/f>") # astIn
  /\ analysis.usedIris = <<"http://s", "http://p", "http://p2">>

\* ------------------------------------------------------ the builder, continued
\* C37 as stated: an AST returned by toSparqlAst is a snapshot: whatever is
\* called on the builder afterwards, the AST reads as it did when it was
\* returned, its prefix mapping included (which the AST holds as a reference
\* to the builder's own `prefixes`, so that it now reads as `prefixes` does).
C37_Original ==
  \A i \in 1..Len(opLog) :
    (opLog[i].op = "toSparqlAst" /\ opLog[i].text = "ast")
      => /\ opLog[i].ast.prefixes = [ref |-> "this.prefixes"]
         /\ DOMAIN prefixes = DOMAIN opLog[i].prefixes
         /\ \A short \in DOMAIN prefixes : prefixes[short] = opLog[i].prefixes[short]

\* an AST was returned with ex: bound to one namespace, and reads ex: as
\* another after a later prefix call
PrefixChangedUnderAst ==
  /\ Len(opLog) = 3
  /\ opLog[1].op = "prefix"
  /\ opLog[2].op = "toSparqlAst"
  /\ opLog[3].op = "prefix"
  /\ opLog[2].prefixes["ex"] = "http://example.org/"
  /\ prefixes["ex"] = "http://example.com/"

\* C38: toSparqlAst is pure and deterministic: a call leaves prefixes,
\* variables, patterns, filters, limit and OutputSpec of the builder as they
\* were; a call returns what an earlier toSparqlAst call returned when no
\* mutator was called in between; and a returned AST carries a limit exactly when limit(n)
\* was called before, equal to the n of the last such call, 0 included.
C38_ToSparqlAstPure ==
  [][(Len(opLog') = Len(opLog) + 1 /\ opLog'[Len(opLog')].op = "toSparqlAst")
       => /\ DOMAIN prefixes' = DOMAIN prefixes
          /\ \A short \in DOMAIN prefixes : prefixes'[short] = prefixes[short]
          /\ variables' = variables
          /\ wherePatterns' = wherePatterns
          /\ filters' = filters
          /\ limitValue' = limitValue
          /\ outputSpec' = outputSpec
          /\ \A i \in 1..Len(opLog) :
               (/\ opLog[i].op = "toSparqlAst"
                /\ \A j \in (i + 1)..Len(opLog) :
                     opLog[j].op \in {"toSparqlAst", "getOutputSpec"})
                 => /\ returned'.kind = opLog[i].text
                    /\ returned'.ast = opLog[i].ast
          /\ returned'.kind = "ast"
               => LET limits == OpsNamed({"limit"})
                  IN /\ returned'.ast.limit.defined <=> limits # <<>>
                     /\ limits # <<>> => returned'.ast.limit.n = limits[Len(limits)].n]_vars

\* limit(10), limit(0), then toSparqlAst twice: both ASTs carry the limit 0
C38_Witness ==
  /\ Len(opLog) = 4
  /\ opLog[1].op = "limit" /\ opLog[1].n = 10
  /\ opLog[2].op = "limit" /\ opLog[2].n = 0
  /\ opLog[3].op = "toSparqlAst"
  /\ opLog[4].op = "toSparqlAst"
  /\ returned.kind = "ast"
  /\ returned.ast = opLog[3].ast
  /\ returned.ast.limit = [defined |-> TRUE, n |-> 0]


\* ------------------------------------------------- execQuery, construction
\* the message getDefaultEngine gives a construction failure of a backend kind
\* starts with this
FailedToCreatePrefix(kind) ==
  IF kind = "grapher" THEN "Failed to create default GraphQueryEngine: "
  ELSE "Failed to create default Comunica QueryEngine: "

\* a call that ended because the construction of its default engine failed
ConstructionFailed(c) ==
  /\ xq[c].pc = "Rejected"
  /\ xq[c].engine = "none"
  /\ xq[c].queryEngine = NoEngine
  /\ StartsWith(xq[c].error.message, FailedToCreatePrefix(xq[c].kindRead))

\* C40: when the construction of a default engine fails, the call is rejected
\* with an Error whose message starts with "Failed to create default ..." and
\* not with the prefix of a wrapped execution failure, no backend was called,
\* and neither cache slot nor the list of constructed engines changes, so the
\* slot of that kind is empty unless another call has constructed such an
\* engine; and a call without an engine handle that starts after such a
\* failure, while no engine of the kind now selected has been constructed,
\* finds the slot empty and starts a construction again.
C40_ConstructionFailureNotCached ==
  [][\A c \in 1..MaxCalls :
       /\ (xq[c].pc \in {"Importing", "Creating"} /\ xq'[c].pc = "Rejected")
            => /\ xq'[c].error.cls = "Error"
               /\ StartsWith(xq'[c].error.message, FailedToCreatePrefix(xq[c].kindRead))
               /\ ~StartsWith(xq'[c].error.message, "SPARQL query execution failed: ")
               /\ xq'[c].backendCalls = 0
               /\ xq'[c].backendErr = NoError
               /\ defaultGrapherEngine' = defaultGrapherEngine
               /\ defaultComunicaEngine' = defaultComunicaEngine
               /\ created' = created
               /\ (\A i \in 1..Len(created) : created[i].kind # xq[c].kindRead)
                    => (IF xq[c].kindRead = "grapher" THEN defaultGrapherEngine'
                        ELSE defaultComunicaEngine') = NoEngine
       /\ (/\ xq[c].pc = "Idle"
           /\ xq'[c].pc # "Idle"
           /\ xq'[c].engine = "none"
           /\ xq'[c].error = NoError
           /\ \E d \in 1..MaxCalls : ConstructionFailed(d)
           /\ \A i \in 1..Len(created) : created[i].kind # availableEngine)
            => /\ xq'[c].pc = "Importing"
               /\ xq'[c].kindRead = availableEngine
               /\ xq'[c].queryEngine = NoEngine]_vars

\* the first call failed to construct the Comunica engine; the second call,
\* started after it had ended and also without a handle, constructed the
\* engine and called the backend on it
C40_Witness ==
  /\ ~overlapped
  /\ ConstructionFailed(1)
  /\ xq[1].kindRead = "comunica"
  /\ xq[2].engine = "none"
  /\ xq[2].kindRead = "comunica"
  /\ created = <<[kind |-> "comunica", by |-> 2]>>
  /\ xq[2].queryEngine = defaultComunicaEngine
  /\ xq[2].backendCalls = 1


\* ------------------------------------------- execQuery, non-streaming results
\* C39: the rows the generator over a non-streaming result has yielded are, in
\* array order, those of the entries of the array that are objects (arrays
\* among them), one row each and none for any other entry, all of them once
\* the generator has ended; a result that is a single object gives exactly one
\* row, and a result that is neither gives none.  A row has the keys of its
\* entry's fields, each bound to a term of kind Literal when the field value is
\* a string and NamedNode otherwise, whose value is the string form of the
\* field value.
C39_RowsOfNonStreamingResult ==
  LET data == rowGen.data
      yielded == rowGen.yielded
      objects == {i \in 1..Len(data) : data[i].t \in {"object", "array"}}
      NthObject(j) == CHOOSE i \in objects : Cardinality({k \in objects : k < i}) = j - 1
      RowOf(r, d) ==
        LET es == ObjectEntries(d)
        IN /\ DOMAIN r = {es[i].key : i \in 1..Len(es)}
           /\ \A i \in 1..Len(es) :
                /\ r[es[i].key].termType
                     = IF es[i].value.t = "string" THEN "Literal" ELSE "NamedNode"
                /\ r[es[i].key].value = JsString(es[i].value)
  IN rowGen.pc # "none"
       => /\ Len(yielded) <= Cardinality(objects)
          /\ rowGen.pc = "Done" => Len(yielded) = Cardinality(objects)
          /\ \A j \in 1..Len(yielded) : RowOf(yielded[j], data[NthObject(j)])
          /\ ~rowGen.isArray
               => /\ Len(data) = 1
                  /\ (rowGen.pc = "Done" /\ data[1].t = "object") => Len(yielded) = 1
                  /\ data[1].t # "object" => yielded = <<>>

\* an array result with a null, a number and an empty string between its
\* objects has been read to the end: two rows, the first with the string
\* 'Bob' as a Literal and the number 30 as a NamedNode "30", the second with
\* the elements of an array entry under their indices
C39_Witness ==
  /\ rowGen.pc = "Done"
  /\ rowGen.isArray
  /\ Len(rowGen.data) = 3
  /\ rowGen.data[1].t = "object"
  /\ rowGen.data[2].t = "null"
  /\ rowGen.data[3].t = "array"
  /\ Len(rowGen.yielded) = 2
  /\ DOMAIN rowGen.yielded[1] = {"name", "age"}
  /\ rowGen.yielded[1]["name"] = [termType |-> "Literal", value |-> "Bob"]
  /\ rowGen.yielded[1]["age"] = [termType |-> "NamedNode", value |-> "30"]
  /\ DOMAIN rowGen.yielded[2] = {"0", "1"}
  /\ rowGen.yielded[2]["0"] = [termType |-> "Literal", value |-> "x"]
  /\ rowGen.yielded[2]["1"] = [termType |-> "NamedNode", value |-> "7"]

====
